---- MODULE Spec2Model ----
(***************************************************************************)
(* A model of dye-your-shell: the resolution of colors and styles of a     *)
(* theme (src/dye/theme.py, src/dye/utils.py), the bracket interpolator    *)
(* (src/shell_themer/interpolator.py) and the running of a scope           *)
(* (src/dye/scope.py).                                                     *)
(*                                                                         *)
(* Text is a sequence of atoms.  An atom stands for a run of characters    *)
(* the code never looks inside of: a key name ("a"), a hex color ("#1"     *)
(* for a "#RRGGBB"), a keyword ("bold", "style"), or one punctuation       *)
(* character.  Template source is a sequence of items, each a literal atom *)
(* or a {{ns.path}} reference, as jinja's lexer hands them to the renderer.*)
(***************************************************************************)
EXTENDS Naturals, Sequences, FiniteSets, TLC

VARIABLES
    impl,          \* which resolver runs: "theme" (Theme._process) or "merge"
    raw_colors,    \* definition["colors"]: the declarations, in document order
    raw_styles,    \* definition["styles"]: the declarations, in document order
    theme_colors,  \* base_colors as colors_merge_and_process is called
    colors,        \* self.colors / base_colors: key -> resolved value
    styles,        \* self.styles: key -> Style
    pc,            \* position of the resolver
    err,           \* the exception that ended the resolver, "" when none
    variables,     \* Interpolator.variables: name -> value
    text,          \* the argument of the interpolator's method
    op,            \* the method of the interpolator that was called, "" before
    result,        \* what the method returned, or the exception it raised
    args_command,  \* args.command, "" when the command line names none
    comment,       \* args.comment
    loaded,        \* the pattern is loaded and its scopes are processed
    escaped,       \* the exception that left dispatch uncaught, "" when none
    scopes,        \* pattern.scopes: name -> the definition of the scope
    to_apply,      \* command_apply's to_apply: the names of the scopes to run
    calls,         \* the calls of Scope.run_agent so far and what each did
    stdout,        \* the lines printed to standard output
    stderr,        \* the message printed to standard error
    exited,        \* dispatch has returned
    exit_code,     \* what dispatch returned, when it has
    generator,     \* GeneratorBase.generator: the registered name of the class
    scopedef,      \* GeneratorBase.scopedef: the keys of the scope, in document order
    scope_styles,  \* GeneratorBase.scope_styles: name -> Style, in document order
    generated,     \* what generate() returned or printed, or the exception it raised
    classes,       \* the class statements of the module that are still to run
    classmap,      \* GeneratorBase.classmap: registered name -> class, as inserted
    pattern,       \* the Pattern object and where _process_definition is
    scope          \* the Scope object: what _process was given and what it set

themeVars == <<impl, raw_colors, raw_styles, theme_colors, colors, styles, pc, err>>
interpVars == <<variables, text, op, result>>
scopeVars == <<args_command, comment, loaded, escaped, scopes, to_apply, calls, stdout,
               stderr, exited, exit_code>>

genVars == <<generator, scopedef, scope_styles, generated>>

loadVars == <<classes, classmap, pattern, scope>>

vars == <<themeVars, interpVars, scopeVars, genVars, loadVars>>

(***************************************************************************)
(* Bounds of the model.                                                    *)
(***************************************************************************)
\* declarations (colors and styles together) in one document
MaxDecls == 3
\* pieces (tokens and runs of other characters) in an interpolated text
MaxPieces == 1
\* nested calls of interpolate() before python's RecursionError
MaxDepth == 3

(***************************************************************************)
(* Values.  A python value is its type and its text: str(5) is "5",        *)
(* str(True) is "True".                                                    *)
(***************************************************************************)
Str(s) == [t |-> "str", v |-> s]
Num5 == [t |-> "int", v |-> <<"5">>]
BoolTrue == [t |-> "bool", v |-> <<"True">>]

\* items of template source
L(c) == [k |-> "lit", c |-> c, ns |-> "", path |-> <<>>]
R(ns, path) == [k |-> "ref", c |-> "", ns |-> ns, path |-> path]
\* raw toml values: a string is kept as its template items
Raw(items) == [t |-> "str", v |-> items]

EmptyTable == [x \in {} |-> Str(<<>>)]

\* the characters of a raw string, as python compares it with a key
RawText(items) ==
    [i \in 1..Len(items) |->
        IF items[i].k = "lit" THEN items[i].c
        ELSE IF Len(items[i].path) = 1
             THEN "{{" \o items[i].ns \o "." \o items[i].path[1] \o "}}"
             ELSE "{{" \o items[i].ns \o "." \o items[i].path[1] \o "."
                       \o items[i].path[2] \o "}}"]

(***************************************************************************)
(* jinja2: Environment().from_string(value).render(ctx).  The default    *)
(* Undefined renders as the empty string, and raises UndefinedError when   *)
(* an attribute of it is taken.  An attribute of a str, int or bool that   *)
(* is not one of its methods is Undefined.                                 *)
(***************************************************************************)
Rendered(s) == [raised |-> FALSE, out |-> s]
UndefinedError == [raised |-> TRUE, out |-> <<>>]

\* {{ ns.path }} against the context ctx: namespace -> (key -> text of value)
EvalRef(ctx, ns, path) ==
    IF ns \notin DOMAIN ctx
    THEN UndefinedError                       \* attribute of an undefined name
    ELSE IF path[1] \notin DOMAIN ctx[ns]
         THEN IF Len(path) = 1 THEN Rendered(<<>>) ELSE UndefinedError
         ELSE IF Len(path) = 1 THEN Rendered(ctx[ns][path[1]])
              ELSE IF Len(path) = 2 THEN Rendered(<<>>) ELSE UndefinedError

RECURSIVE Render(_, _)
Render(ctx, items) ==
    IF items = <<>> THEN Rendered(<<>>)
    ELSE LET rest == Render(ctx, Tail(items))
             head == IF Head(items).k = "lit"
                     THEN Rendered(<<Head(items).c>>)
                     ELSE EvalRef(ctx, Head(items).ns, Head(items).path)
         IN  IF head.raised \/ rest.raised THEN UndefinedError
             ELSE Rendered(head.out \o rest.out)

\* the text jinja prints for each value of a table
TextOf(table) == [k \in DOMAIN table |-> table[k].v]

(***************************************************************************)
(* Color resolution.                                                       *)
(***************************************************************************)
\* the bare lookup left out: no string is taken for the name of a key
IsBareName_NoLookup(base, value) ==
    /\ value.t = "str"
    /\ FALSE

\* `value in self.colors`: the raw string is the name of a key of base
IsBareName(base, value) ==
    /\ value.t = "str"
    /\ Len(value.v) = 1
    /\ value.v[1].k = "lit"
    /\ value.v[1].c \in DOMAIN base

\* the context of colors: colors=..., color=...
ColorCtx(base) == [ns \in {"colors", "color"} |-> TextOf(base)]

\* the loop with every value rendered, which turns a number into its text
ThemeColor_RenderAll(base, value) ==
    IF IsBareName(base, value)
    THEN [err |-> "", set |-> TRUE, val |-> base[value.v[1].c]]
    ELSE IF value.t = "str"
         THEN LET r == Render(ColorCtx(base), value.v)
              IN  IF r.raised
                  THEN [err |-> "UndefinedError", set |-> FALSE, val |-> value]
                  ELSE [err |-> "", set |-> TRUE, val |-> Str(r.out)]
         ELSE [err |-> "", set |-> TRUE, val |-> Str(value.v)]

\* one iteration of the loop of Theme._process over raw_colors:
\* [err, set, val]: the exception, whether base[key] is assigned, and to what
ThemeColor(base, value) ==
    IF value.t = "str"
    THEN IF IsBareName(base, value)
         THEN [err |-> "", set |-> TRUE, val |-> base[value.v[1].c]]
         ELSE LET r == Render(ColorCtx(base), value.v)
              IN  IF r.raised
                  THEN [err |-> "UndefinedError", set |-> FALSE, val |-> value]
                  ELSE [err |-> "", set |-> TRUE, val |-> Str(r.out)]
    ELSE [err |-> "", set |-> TRUE, val |-> value]

\* one iteration of the loop of colors_merge_and_process
MergeColor(base, value) ==
    IF value.t = "str"
    THEN IF IsBareName(base, value)
         THEN [err |-> "", set |-> TRUE, val |-> base[value.v[1].c]]
         ELSE LET r == Render(ColorCtx(base), value.v)
              IN  IF r.raised
                  THEN [err |-> "UndefinedError", set |-> FALSE, val |-> value]
                  ELSE [err |-> "", set |-> TRUE, val |-> Str(r.out)]
    ELSE IF value.t = "dict"
         THEN [err |-> "", set |-> FALSE, val |-> value]
         ELSE [err |-> "DyeSyntaxError", set |-> FALSE, val |-> value]

(***************************************************************************)
(* rich.style.Style: the foreground color, the background color, the bold  *)
(* attribute and the set of the other attributes that are on.  A color is  *)
(* "" (none), "default", a standard color ("red") or a truecolor ("#1",    *)
(* "#2").                                                                  *)
(***************************************************************************)
Style(bold, color, bgcolor) ==
    [bold |-> bold, color |-> color, bgcolor |-> bgcolor, attrs |-> {}]
NULL_STYLE == Style(FALSE, "", "")

\* the attributes of a style besides bold, in the order of their bits
OtherAttributes == <<"dim", "italic", "underline", "reverse", "strike">>

\* rich.color.Color.parse accepts these words
TrueColors == {"#1", "#2", "#A"}
ColorWords == TrueColors \cup {"red", "default"}

\* str.split(): the words of a text, a word being a run of atoms without " "
RECURSIVE Split(_, _, _)
Split(s, word, acc) ==
    IF s = <<>> THEN (IF word = <<>> THEN acc ELSE Append(acc, word))
    ELSE IF Head(s) = " "
         THEN Split(Tail(s), <<>>, IF word = <<>> THEN acc ELSE Append(acc, word))
         ELSE Split(Tail(s), Append(word, Head(s)), acc)

StyleSyntaxError == [raised |-> TRUE, style |-> NULL_STYLE]
Parsed(st) == [raised |-> FALSE, style |-> st]

\* the loop of Style.parse over the words
RECURSIVE ParseWords(_, _)
ParseWords(words, st) ==
    IF words = <<>> THEN Parsed(st)
    ELSE LET w == Head(words) IN
         IF w = <<"on">>
         THEN IF Len(words) >= 2 /\ Len(words[2]) = 1 /\ words[2][1] \in ColorWords
              THEN ParseWords(Tail(Tail(words)), [st EXCEPT !.bgcolor = words[2][1]])
              ELSE StyleSyntaxError
         ELSE IF w = <<"bold">>
              THEN ParseWords(Tail(words), [st EXCEPT !.bold = TRUE])
              ELSE IF Len(w) = 1 /\ (\E i \in DOMAIN OtherAttributes : OtherAttributes[i] = w[1])
              THEN ParseWords(Tail(words), [st EXCEPT !.attrs = @ \cup {w[1]}])
              ELSE IF Len(w) = 1 /\ w[1] \in ColorWords
                   THEN ParseWords(Tail(words), [st EXCEPT !.color = w[1]])
                   ELSE StyleSyntaxError

\* a parser that swallows the syntax error and hands back the empty style
StyleParse_Lenient(style_definition) ==
    LET words == Split(style_definition, <<>>, <<>>)
        p == ParseWords(words, NULL_STYLE)
    IN  IF p.raised THEN Parsed(NULL_STYLE) ELSE p

\* rich.style.Style.parse(text)
StyleParse(style_definition) ==
    LET words == Split(style_definition, <<>>, <<>>) IN
    IF words = <<>> \/ words = << <<"none">> >> THEN Parsed(NULL_STYLE)
    ELSE ParseWords(words, NULL_STYLE)

\* str(style), as jinja prints a style: attributes, color, "on" bgcolor
StyleText(st) ==
    LET On[i \in 0..Len(OtherAttributes)] ==
            IF i = 0 THEN <<>>
            ELSE IF OtherAttributes[i] \in st.attrs
                 THEN Append(On[i - 1], <<OtherAttributes[i]>>) ELSE On[i - 1]
        a == (IF st.bold THEN << <<"bold">> >> ELSE <<>>) \o On[Len(OtherAttributes)]
        c == IF st.color # "" THEN << <<st.color>> >> ELSE <<>>
        b == IF st.bgcolor # "" THEN << <<"on">>, <<st.bgcolor>> >> ELSE <<>>
        ws == a \o c \o b
        Join[i \in 0..Len(ws)] ==
            IF i = 0 THEN <<>>
            ELSE IF i = 1 THEN ws[1] ELSE Join[i - 1] \o <<" ">> \o ws[i]
    IN  IF ws = <<>> THEN <<"none">> ELSE Join[Len(ws)]

\* the context of styles: color=, colors=, style=, styles=
StyleCtx(cols, stys) ==
    [ns \in {"colors", "color", "styles", "style"} |->
        IF ns \in {"colors", "color"} THEN TextOf(cols)
        ELSE [k \in DOMAIN stys |-> StyleText(stys[k])]]

\* `value in self.styles`
IsBareStyle(stys, value) ==
    /\ Len(value.v) = 1
    /\ value.v[1].k = "lit"
    /\ value.v[1].c \in DOMAIN stys

\* one iteration of the loop of Theme._process over raw_styles
ThemeStyle(cols, stys, value) ==
    IF IsBareStyle(stys, value)
    THEN [err |-> "", set |-> TRUE, val |-> stys[value.v[1].c]]
    ELSE LET r == Render(StyleCtx(cols, stys), value.v)
             p == StyleParse(r.out)
         IN  IF r.raised
             THEN [err |-> "UndefinedError", set |-> FALSE, val |-> NULL_STYLE]
             ELSE IF p.raised
                  THEN [err |-> "StyleSyntaxError", set |-> FALSE, val |-> NULL_STYLE]
                  ELSE [err |-> "", set |-> TRUE, val |-> p.style]

(***************************************************************************)
(* The documents of the model.                                             *)
(***************************************************************************)
ColorKeys == {"a", "b", "c"}
StyleKeys == {"s", "t"}

\* raw values of [colors]; "z" is a name no document declares
RawColorValues ==
    { Raw(<<L("#1")>>),                                       \* "#112233"
      Raw(<<L("a")>>), Raw(<<L("b")>>),                       \* bare names
      Raw(<<R("color", <<"z">>)>>),                           \* "{{color.z}}"
      Raw(<<R("colors", <<"a">>), R("colors", <<"z">>)>>),    \* "{{colors.a}}{{colors.z}}"
      Raw(<<R("colors", <<"z", "a">>)>>),                     \* "{{colors.z.a}}"
      Num5, BoolTrue }

\* raw values of [styles]
RawStyleValues ==
    { Raw(<<>>),                                              \* ""
      Raw(<<L("bold"), L(" "), L("#2")>>),                    \* "bold #445566"
      Raw(<<L("s")>>), Raw(<<L("t")>>),                       \* bare names
      Raw(<<R("styles", <<"s">>)>>),                          \* "{{styles.s}}"
      Raw(<<R("style", <<"z">>)>>),                           \* "{{style.z}}"
      Raw(<<R("colors", <<"a">>), L(" "), L("on"), L(" "), R("color", <<"z">>)>>),
      Raw(<<R("styles", <<"z", "s">>)>>) }                    \* "{{styles.z.s}}"

\* the keys a table declares
Keys(decls) == { decls[i].key : i \in 1..Len(decls) }

\* the colors a theme already resolved, which a pattern's colors are merged into
BaseColors == { EmptyTable, [x \in {"b"} |-> Str(<<"#2">>)] }

(***************************************************************************)
(* Theme.loads(): _process() resolves the colors, then the styles, each in *)
(* the order of the document.  colors_merge_and_process(base, merging,     *)
(* env) is the resolver of colors that Theme and Pattern share.  A loop    *)
(* reads one declaration of the document per iteration; raw_colors and     *)
(* raw_styles hold the declarations read so far.                           *)
(***************************************************************************)
InterpIdle ==
    /\ variables = EmptyTable
    /\ text = <<>>
    /\ op = ""
    /\ result = [err |-> "", out |-> <<>>]

\* no pattern is applied
ScopeIdle ==
    /\ args_command = "" /\ comment = FALSE /\ loaded = FALSE /\ escaped = ""
    /\ scopes = <<>> /\ to_apply = <<>> /\ calls = <<>>
    /\ stdout = <<>> /\ stderr = <<>>
    /\ exited = FALSE /\ exit_code = 0

\* no generator is constructed
GenIdle ==
    /\ generator = "" /\ scopedef = <<>> /\ scope_styles = <<>>
    /\ generated = [done |-> FALSE, err |-> "", msg |-> <<>>, items |-> <<>>, out |-> <<>>]

\* no module is being loaded
LoadIdle ==
    /\ classes = <<>> /\ classmap = <<>>
    /\ pattern = [definition |-> <<>>, variables |-> <<>>, resolved_vars |-> <<>>,
                  at |-> "", todo |-> <<>>, err |-> "", msg |-> <<>>, ran |-> <<>>]
    /\ scope = [raw |-> <<>>, data |-> <<>>, definition |-> <<>>, at |-> "", err |-> "",
                read |-> <<>>]

ThemeInit ==
    /\ InterpIdle
    /\ ScopeIdle
    /\ GenIdle
    /\ LoadIdle
    /\ impl \in {"theme", "merge"}
    /\ raw_colors = <<>>
    /\ raw_styles = <<>>
    /\ theme_colors \in (IF impl = "theme" THEN {EmptyTable} ELSE BaseColors)
    /\ colors = theme_colors
    /\ styles = [x \in {} |-> NULL_STYLE]
    /\ pc = "colors"
    /\ err = ""

\* lines 103-117 of theme.py: one key of raw_colors
ProcessColor ==
    /\ impl = "theme" /\ pc = "colors"
    /\ Len(raw_colors) + Len(raw_styles) < MaxDecls
    /\ \E key \in ColorKeys \ Keys(raw_colors), value \in RawColorValues :
         LET r == ThemeColor(colors, value) IN
         /\ raw_colors' = Append(raw_colors, [key |-> key, value |-> value])
         /\ colors' = IF r.set THEN (key :> r.val) @@ colors ELSE colors
         /\ err' = r.err
         /\ pc' = IF r.err # "" THEN "raised" ELSE pc
    /\ UNCHANGED <<loadVars, impl, raw_styles, theme_colors, styles, interpVars, scopeVars, genVars>>

\* lines 119-125 of theme.py: the loop over the colors has ended
ColorsDone ==
    /\ impl = "theme" /\ pc = "colors"
    /\ pc' = "styles"
    /\ UNCHANGED <<loadVars, impl, raw_colors, raw_styles, theme_colors, colors, styles, err, interpVars, scopeVars, genVars>>

\* lines 126-140 of theme.py: one key of raw_styles
ProcessStyle ==
    /\ impl = "theme" /\ pc = "styles"
    /\ Len(raw_colors) + Len(raw_styles) < MaxDecls
    /\ \E key \in StyleKeys \ Keys(raw_styles), value \in RawStyleValues :
         LET r == ThemeStyle(colors, styles, value) IN
         /\ raw_styles' = Append(raw_styles, [key |-> key, value |-> value])
         /\ styles' = IF r.set THEN (key :> r.val) @@ styles ELSE styles
         /\ err' = r.err
         /\ pc' = IF r.err # "" THEN "raised" ELSE pc
    /\ UNCHANGED <<loadVars, impl, raw_colors, theme_colors, colors, interpVars, scopeVars, genVars>>

\* _process returns
StylesDone ==
    /\ impl = "theme" /\ pc = "styles"
    /\ pc' = "done"
    /\ UNCHANGED <<loadVars, impl, raw_colors, raw_styles, theme_colors, colors, styles, err, interpVars, scopeVars, genVars>>

\* lines 78-98 of utils.py: one key of merging_colors
MergeStep ==
    /\ impl = "merge" /\ pc = "colors"
    /\ Len(raw_colors) < MaxDecls
    /\ \E key \in ColorKeys \ Keys(raw_colors), value \in RawColorValues :
         LET r == MergeColor(colors, value) IN
         /\ raw_colors' = Append(raw_colors, [key |-> key, value |-> value])
         /\ colors' = IF r.set THEN (key :> r.val) @@ colors ELSE colors
         /\ err' = r.err
         /\ pc' = IF r.err # "" THEN "raised" ELSE pc
    /\ UNCHANGED <<loadVars, impl, raw_styles, theme_colors, styles, interpVars, scopeVars, genVars>>

\* colors_merge_and_process returns
MergeDone ==
    /\ impl = "merge" /\ pc = "colors"
    /\ pc' = "done"
    /\ UNCHANGED <<loadVars, impl, raw_colors, raw_styles, theme_colors, colors, styles, err, interpVars, scopeVars, genVars>>

ThemeNext ==
    \/ ProcessColor
    \/ ColorsDone
    \/ ProcessStyle
    \/ StylesDone
    \/ MergeStep
    \/ MergeDone

Spec == ThemeInit /\ [][ThemeNext]_vars

(***************************************************************************)
(* Properties of the resolution of colors and styles.                      *)
(***************************************************************************)
Bare(name) == Raw(<<L(name)>>)
Hex1 == Raw(<<L("#1")>>)
KeysBefore(decls, i) == { decls[j].key : j \in 1..(i - 1) }

\* the references of a raw string
Refs(value) == { i \in 1..Len(value.v) : value.v[i].k = "ref" }

\* C1: colors are resolved in declaration order, and a string value is
\* replaced by bare-name aliasing only when it names a key processed
\* strictly earlier: a key whose value names an earlier key gets that key's
\* resolved value; a key whose value names itself or a later key (one that
\* the base table does not hold) keeps the name as literal text, so that
\* a = "b" declared before b = "#112233" does not resolve to "#112233".
C1_DeclarationOrder ==
    \A i, j \in 1..Len(raw_colors) :
        raw_colors[i].value = Bare(raw_colors[j].key)
        => IF j < i
           THEN colors[raw_colors[i].key] = colors[raw_colors[j].key]
           ELSE raw_colors[j].key \notin DOMAIN theme_colors
                => /\ colors[raw_colors[i].key] = Str(<<raw_colors[j].key>>)
                   /\ colors[raw_colors[i].key] # Str(<<"#1">>)

\* a = "b", b = "#112233", c = "b", in this order: a is "b", c is "#112233"
C1_Witness ==
    /\ pc = "done" /\ Len(raw_colors) = 3
    /\ raw_colors[1].value = Bare(raw_colors[2].key)
    /\ raw_colors[2].value = Hex1
    /\ raw_colors[3].value = Bare(raw_colors[2].key)
    /\ colors[raw_colors[1].key] = Str(<<raw_colors[2].key>>)
    /\ colors[raw_colors[3].key] = Str(<<"#1">>)

\* C2: after color resolution no resolved value is an unresolved alias: the
\* value of every key with a string value is the key's own raw text, the
\* empty string, or not the name of a key of the resolved table.
C2_NoUnresolvedAlias ==
    pc = "done" =>
        \A i \in 1..Len(raw_colors) :
            LET k == raw_colors[i].key IN
            (k \in DOMAIN colors /\ colors[k].t = "str")
            => \/ (raw_colors[i].value.t = "str"
                   /\ colors[k].v = RawText(raw_colors[i].value.v))
               \/ colors[k].v = <<>>
               \/ ~(Len(colors[k].v) = 1 /\ colors[k].v[1] \in DOMAIN colors)

\* C3: a resolved color is never a partially-substituted string: a raw
\* value with several references, at least one of them to a key that is
\* unknown or not yet defined, resolves to its raw text or to the empty text.
C3_NeverPartiallySubstituted ==
    \A i \in 1..Len(raw_colors) :
        LET k == raw_colors[i].key
            value == raw_colors[i].value
            known == KeysBefore(raw_colors, i) \cup DOMAIN theme_colors
        IN  (/\ value.t = "str"
             /\ Cardinality(Refs(value)) >= 2
             /\ \E r \in Refs(value) : value.v[r].path[1] \notin known
             /\ k \in DOMAIN colors /\ k \notin DOMAIN theme_colors)
            => colors[k].v \in {RawText(value.v), <<>>}

\* C4: resolving colors and styles never raises because of a reference to
\* an unknown or not yet defined key, whatever the form of the reference.
C4_UnknownReferenceNeverRaises == err # "UndefinedError"

\* the styles resolved before declaration i is read
StylesBefore(i) ==
    [k \in KeysBefore(raw_styles, i) \cap DOMAIN styles |-> styles[k]]

\* declaration i of raw_styles is a bare name, not a color word, of a style
\* that is declared later or not at all
ForwardBareStyle(i) ==
    LET value == raw_styles[i].value IN
    /\ Len(value.v) = 1 /\ value.v[1].k = "lit"
    /\ value.v[1].c \in StyleKeys \ KeysBefore(raw_styles, i)

\* declaration i of raw_styles renders to a text ending in "on"
DanglingOn(i) ==
    LET value == raw_styles[i].value IN
    /\ Len(value.v) >= 2
    /\ value.v[Len(value.v) - 2] = L("on")
    /\ value.v[Len(value.v) - 1] = L(" ")
    /\ value.v[Len(value.v)].k = "ref"
    /\ Len(value.v[Len(value.v)].path) = 1
    /\ value.v[Len(value.v)].path[1] \notin ColorKeys \cup StyleKeys

BS == "\\"
NL == "\n"

Returned(s) == [err |-> "", out |-> s]
Raised(e) == [err |-> e, out |-> <<>>]

\* [^}:]* from q on: the index behind the longest run without "}" and ":"
RECURSIVE NameEnd(_, _)
NameEnd(s, q) ==
    IF q > Len(s) \/ s[q] \in {"}", ":"} THEN q ELSE NameEnd(s, q + 1)

\* .* from q on stops at the end of the line
RECURSIVE LineEnd(_, _)
LineEnd(s, q) ==
    IF q > Len(s) \/ s[q] = NL THEN q - 1 ELSE LineEnd(s, q + 1)

\* the optional ":" and format behind a name that ends at e - 1: the format
\* is matched greedily, so the
\* match ends at the last "}" of the line; 0 when there is none
LastClose(s, e) ==
    LET closes == { r \in (e + 1)..LineEnd(s, e + 1) : s[r] = "}" }
    IN  IF closes = {} THEN 0
        ELSE CHOOSE r \in closes : \A r2 \in closes : r2 <= r

NoMatch == [ok |-> FALSE, backslash |-> FALSE, start |-> 0, stop |-> 0,
            name |-> <<>>, hasfmt |-> FALSE, fmt |-> <<>>]

\* the match of the pattern at position p of s, for the given keywords
Match(s, p, keywords) ==
    LET backslash == s[p] = BS
        q == IF backslash THEN p + 1 ELSE p
        e == NameEnd(s, q + 3)
    IN  IF ~(q + 3 <= Len(s) /\ s[q] = "{" /\ s[q + 1] \in keywords /\ s[q + 2] = ":")
        THEN NoMatch
        ELSE IF e > Len(s) THEN NoMatch
        ELSE IF s[e] = "}"
             THEN [ok |-> TRUE, backslash |-> backslash, start |-> q, stop |-> e,
                   name |-> SubSeq(s, q + 3, e - 1), hasfmt |-> FALSE, fmt |-> <<>>]
             ELSE IF LastClose(s, e) = 0 THEN NoMatch
                  ELSE [ok |-> TRUE, backslash |-> backslash, start |-> q,
                        stop |-> LastClose(s, e),
                        name |-> SubSeq(s, q + 3, e - 1), hasfmt |-> TRUE,
                        fmt |-> SubSeq(s, e + 1, LastClose(s, e) - 1)]

\* color.triplet.hex: only a truecolor has a triplet
TripletHex(color) == IF color = "#A" THEN "#a" ELSE color
\* .replace("#", "")
NoHash(hex) == IF hex = "#1" THEN "1" ELSE IF hex = "#2" THEN "2" ELSE "a"

\* _get_style(styledef): the style of the table, else the parsed text
GetStyle(styledef) ==
    LET found == Len(styledef) = 1 /\ styledef[1] \in DOMAIN styles
    IN  IF found /\ styles[styledef[1]] # NULL_STYLE
        THEN Parsed(styles[styledef[1]])
        ELSE StyleParse(styledef)

\* _style_subber(match)
StyleSubber(s, m) ==
    LET phrase == SubSeq(s, m.start, m.stop)
        got == GetStyle(m.name)
    IN  IF m.backslash THEN Returned(phrase)
        ELSE IF got.raised \/ got.style = NULL_STYLE
             THEN Returned(phrase)
        ELSE IF (~m.hasfmt) \/ m.fmt = <<>> \/ m.fmt = <<"hex">>
             THEN IF got.style.color \in TrueColors
                  THEN Returned(<<TripletHex(got.style.color)>>)
                  ELSE Raised("AttributeError")
        ELSE IF m.fmt = <<"hexnohash">>
             THEN IF got.style.color \in TrueColors
                  THEN Returned(<<NoHash(TripletHex(got.style.color))>>)
                  ELSE Raised("AttributeError")
        ELSE Returned(phrase)

\* interpolate_styles(text)
RECURSIVE SubStyles(_, _)
SubStyles(s, p) ==
    IF p > Len(s) THEN Returned(<<>>)
    ELSE LET m == Match(s, p, {"style"}) IN
         IF ~m.ok
         THEN LET rest == SubStyles(s, p + 1)
              IN  IF rest.err # "" THEN rest ELSE Returned(<<s[p]>> \o rest.out)
         ELSE LET rep == StyleSubber(s, m)
                  rest == SubStyles(s, m.stop + 1)
              IN  IF rep.err # "" THEN rep
                  ELSE IF rest.err # "" THEN rest
                  ELSE Returned(rep.out \o rest.out)

RECURSIVE Interpolate(_, _)
RECURSIVE SubVariables(_, _, _)

\* the backslash not looked at: an escaped token is substituted like any other
VarSubber_IgnoreBackslash(s, m, depth) ==
    LET phrase == SubSeq(s, m.start, m.stop)
        defined == Len(m.name) = 1 /\ m.name[1] \in DOMAIN variables
        definedvalue == variables[m.name[1]]
    IN  IF ~defined THEN Returned(phrase)
        ELSE IF definedvalue.t = "str" THEN Interpolate(definedvalue.v, depth + 1)
        ELSE IF definedvalue.t = "bool"
             THEN Returned(<<IF definedvalue.v = <<"True">> THEN "true" ELSE "false">>)
        ELSE Returned(definedvalue.v)

\* _var_subber(match), with value_of(varname)
VarSubber(s, m, depth) ==
    LET phrase == SubSeq(s, m.start, m.stop)
        defined == Len(m.name) = 1 /\ m.name[1] \in DOMAIN variables
        definedvalue == variables[m.name[1]]
    IN  IF m.backslash THEN Returned(phrase)
        ELSE IF ~defined THEN Returned(phrase)
        ELSE IF definedvalue.t = "str" THEN Interpolate(definedvalue.v, depth + 1)
        ELSE IF definedvalue.t = "bool"
             THEN Returned(<<IF definedvalue.v = <<"True">> THEN "true" ELSE "false">>)
        ELSE Returned(definedvalue.v)

\* interpolate_variables(text)
SubVariables(s, p, depth) ==
    IF p > Len(s) THEN Returned(<<>>)
    ELSE LET m == Match(s, p, {"var", "variable"}) IN
         IF ~m.ok
         THEN LET rest == SubVariables(s, p + 1, depth)
              IN  IF rest.err # "" THEN rest ELSE Returned(<<s[p]>> \o rest.out)
         ELSE LET rep == VarSubber(s, m, depth)
                  rest == SubVariables(s, m.stop + 1, depth)
              IN  IF rep.err # "" THEN rep
                  ELSE IF rest.err # "" THEN rest
                  ELSE Returned(rep.out \o rest.out)

\* interpolate(text): the variables, then the styles
Interpolate(s, depth) ==
    IF depth > MaxDepth THEN Raised("RecursionError")
    ELSE LET newtext == SubVariables(s, 1, depth)
         IN  IF newtext.err # "" THEN newtext ELSE SubStyles(newtext.out, 1)

(***************************************************************************)
(* The texts, variables and styles the interpolator is called with.        *)
(***************************************************************************)
\* a token: the backslash, the keyword, the name and the format, if any
Token(backslash, keyword, name, hasfmt, fmt) ==
    (IF backslash THEN <<BS>> ELSE <<>>) \o <<"{", keyword, ":">> \o name
    \o (IF hasfmt THEN <<":">> \o fmt ELSE <<>>) \o <<"}">>

\* "y" and "q" are names no table defines
VarNames == { <<>>, <<"x">>, <<"y">>, <<"n">>, <<"t">>, <<"c">>, <<"a">>, <<"es">>, <<"ev">> }
StyleNames == { <<>>, <<"s">>, <<"e">>, <<"r">>, <<"q">>, <<"#2">>, <<"bold">>,
                <<"bold", " ", "#1">> }
Formats == { <<>>, <<"hex">>, <<"hexnohash">>, <<"ansi">> }

VarTokens ==
    { Token(b, k, n, FALSE, <<>>) : b \in BOOLEAN, k \in {"var", "variable"}, n \in VarNames }
StyleTokens ==
    { Token(b, "style", n, FALSE, <<>>) : b \in BOOLEAN, n \in StyleNames }
    \cup { Token(b, "style", n, TRUE, f) : b \in BOOLEAN, n \in StyleNames, f \in Formats }
\* text that is no token
PlainPieces ==
    { <<"-">>, <<"}">>, <<BS, "{">>, <<"{", "x", "}">>,
      <<BS, "{", "notakeyword", ":", "x", "}">> }

Pieces == VarTokens \cup StyleTokens \cup PlainPieces

RECURSIVE Texts(_)
Texts(n) ==
    IF n = 0 THEN {<<>>}
    ELSE Texts(n - 1) \cup { t \o q : t \in Texts(n - 1), q \in Pieces }

\* lines of a token, a dash, and a token or a closing brace
TokenLines ==
    LET tokens == { Token(FALSE, "style", <<"s">>, FALSE, <<>>),
                    Token(FALSE, "style", <<"s">>, TRUE, <<"hex">>),
                    Token(FALSE, "style", <<"s">>, TRUE, <<"hexnohash">>),
                    Token(FALSE, "var", <<"x">>, FALSE, <<>>) }
    IN  { <<t, <<"-">>, u>> : t \in tokens, u \in tokens \cup { <<"}">> } }

VarTables ==
    { EmptyTable,
      [k \in {"x", "n", "t", "c", "a", "es", "ev"} |->
          CASE k = "x" -> Str(<<"h", "i">>)
            [] k = "n" -> Num5
            [] k = "t" -> BoolTrue
            [] k = "c" -> Str(Token(FALSE, "var", <<"x">>, FALSE, <<>>))
            [] k = "a" -> Str(Token(FALSE, "var", <<"a">>, FALSE, <<>>))
            [] k = "es" -> Str(Token(TRUE, "style", <<"s">>, FALSE, <<>>))
            [] k = "ev" -> Str(Token(TRUE, "var", <<"x">>, FALSE, <<>>))] }

StyleTables ==
    { [k \in {} |-> NULL_STYLE],
      [k \in {"s", "e", "r"} |->
          CASE k = "s" -> Style(FALSE, "#A", "#1")
            [] k = "e" -> NULL_STYLE
            [] k = "r" -> Style(TRUE, "red", "")] }

ThemeIdle ==
    /\ impl = "" /\ raw_colors = <<>> /\ raw_styles = <<>>
    /\ theme_colors = EmptyTable /\ colors = EmptyTable
    /\ pc = "done" /\ err = ""

InterpInit ==
    /\ ThemeIdle
    /\ ScopeIdle
    /\ GenIdle
    /\ LoadIdle
    /\ styles \in StyleTables
    /\ variables \in VarTables
    /\ text \in Texts(MaxPieces) \cup { l[1] \o l[2] \o l[3] : l \in TokenLines }
    /\ op = ""
    /\ result = Returned(<<>>)

\* interp.interpolate(text)
CallInterpolate ==
    /\ op = ""
    /\ op' = "interpolate"
    /\ result' = Interpolate(text, 1)
    /\ UNCHANGED <<loadVars, themeVars, scopeVars, genVars, variables, text>>

\* interp.interpolate_variables(text)
CallInterpolateVariables ==
    /\ op = ""
    /\ op' = "interpolate_variables"
    /\ result' = SubVariables(text, 1, 1)
    /\ UNCHANGED <<loadVars, themeVars, scopeVars, genVars, variables, text>>

\* interp.interpolate_styles(text)
CallInterpolateStyles ==
    /\ op = ""
    /\ op' = "interpolate_styles"
    /\ result' = SubStyles(text, 1)
    /\ UNCHANGED <<loadVars, themeVars, scopeVars, genVars, variables, text>>

InterpNext ==
    \/ CallInterpolate
    \/ CallInterpolateVariables
    \/ CallInterpolateStyles

SpecInterp == InterpInit /\ [][InterpNext]_vars

(***************************************************************************)
(* Properties of the interpolator.                                         *)
(***************************************************************************)
\* text that is one escaped token without a format
EscapedTokens ==
    { Token(TRUE, k, n, FALSE, <<>>) : k \in {"var", "variable"}, n \in VarNames }
    \cup { Token(TRUE, "style", n, FALSE, <<>>) : n \in StyleNames }

\* a backslash before a brace that starts no recognised token
EscapedBraces == { <<BS, "{">>, <<BS, "{", "notakeyword", ":", "x", "}">> }

\* C7: interpolate of a backslash-escaped token {var:x}, {variable:x} or
\* {style:NAME}, for every name, defined or not, returns the token without
\* the backslash and without substitution; a backslash before a brace that
\* starts no recognised token is kept.
C7_EscapedTokenKept ==
    op = "interpolate"
    => /\ text \in EscapedTokens => result = Returned(Tail(text))
       /\ text \in EscapedBraces => result = Returned(text)

\* interpolate has returned {var:x} for the escaped token of a defined x
C7_Witness ==
    /\ op = "interpolate"
    /\ "x" \in DOMAIN variables
    /\ text = <<BS, "{", "var", ":", "x", "}">>
    /\ result = Returned(<<"{", "var", ":", "x", "}">>)

\* text that is one style token without a backslash
PlainStyleTokens ==
    { Token(FALSE, "style", n, FALSE, <<>>) : n \in StyleNames }
    \cup { Token(FALSE, "style", n, TRUE, f) : n \in StyleNames, f \in Formats }

\* the name of the one style token that text is
StyleNameOf(token) == SubSeq(token, 4, NameEnd(token, 4) - 1)

\* C8 as stated: interpolate_styles of one style token returns a string in
\* every case: the token unchanged when no style is obtained or the format
\* is not a recognised one, else the hex code of the foreground color of
\* the style, without the "#" for hexnohash.
C8_StyleTokenReturnsString ==
    (op = "interpolate_styles" /\ text \in PlainStyleTokens)
    => LET m == Match(text, 1, {"style"})
           got == GetStyle(StyleNameOf(text))
           obtained == ~got.raised /\ got.style # NULL_STYLE
       IN  /\ result.err = ""
           /\ (~obtained \/ (m.hasfmt /\ m.fmt \notin {<<>>, <<"hex">>, <<"hexnohash">>}))
                 => result.out = text
           /\ (obtained /\ ((~m.hasfmt) \/ m.fmt \in {<<>>, <<"hex">>}))
                 => result.out = <<TripletHex(got.style.color)>>
           /\ (obtained /\ m.hasfmt /\ m.fmt = <<"hexnohash">>)
                 => result.out = <<NoHash(TripletHex(got.style.color))>>

(***************************************************************************)
(* Applying a pattern (dye/dye.py: dispatch, command_apply; dye/scope.py:  *)
(* run_agent, _enabled).  A scope definition is its keys agent, enabled    *)
(* and enabled_if, each absent or a toml value.  The shell is the          *)
(* environment: it gives the command "true" the exit status 0 and every    *)
(* other command the status 1.                                             *)
(***************************************************************************)
EXIT_SUCCESS == 0
EXIT_ERROR == 1
EXIT_USAGE == 2

\* the key is not in the definition
Absent == [t |-> "absent", v |-> <<>>]
BoolFalse == [t |-> "bool", v |-> <<"False">>]

\* the keys of AgentBase.classmap
AgentNames == { <<"environment_variables">> }

\* proc.returncode of subprocess.run(command, shell=True)
ReturnCode(command) == IF command = <<"true">> THEN 0 ELSE 1

NoError == [type |-> "", msg |-> <<>>]
DyeError(msg) == [type |-> "DyeError", msg |-> msg]
DyeSyntaxError(msg) == [type |-> "DyeSyntaxError", msg |-> msg]

\* a value of `enabled` that is no boolean taken by its truth, without an error
ScopeEnabled_Truthy(name, definition) ==
    IF definition.enabled # Absent
    THEN [exc |-> NoError, value |-> definition.enabled # BoolFalse,
          commands |-> <<>>]
    ELSE IF definition.enabled_if = Absent \/ definition.enabled_if.v = <<>>
         THEN [exc |-> NoError, value |-> TRUE, commands |-> <<>>]
    ELSE [exc |-> NoError, value |-> ReturnCode(definition.enabled_if.v) = 0,
          commands |-> <<definition.enabled_if.v>>]

\* Scope._enabled(): the exception raised or the value returned, and the
\* commands the shell has run
ScopeEnabled(name, definition) ==
    IF definition.enabled # Absent
    THEN IF definition.enabled.t # "bool"
         THEN [exc |-> DyeSyntaxError(<<"scope '", name, "' requires '", "enabled",
                                        "' to be true or false">>),
               value |-> FALSE, commands |-> <<>>]
         ELSE [exc |-> NoError, value |-> definition.enabled = BoolTrue,
               commands |-> <<>>]
    ELSE IF definition.enabled_if = Absent \/ definition.enabled_if.v = <<>>
         THEN [exc |-> NoError, value |-> TRUE, commands |-> <<>>]
    ELSE [exc |-> NoError, value |-> ReturnCode(definition.enabled_if.v) = 0,
          commands |-> <<definition.enabled_if.v>>]

\* what one call of run_agent did
Call(name, exc, commands, ran, printed) ==
    [scope |-> name, exc |-> exc, commands |-> commands, ran |-> ran,
     printed |-> printed]

\* the agent run without asking whether the scope is enabled
RunAgent_EnabledUnchecked(name, definition, output) ==
    IF definition.agent = Absent
    THEN Call(name, DyeSyntaxError(<<"scope '", name, "' does not have an agent.">>),
              <<>>, FALSE, <<>>)
    ELSE IF definition.agent.v \notin AgentNames
    THEN Call(name, DyeError(definition.agent.v \o <<": unknown agent">>),
              <<>>, FALSE, <<>>)
    ELSE Call(name, NoError, <<>>, TRUE, output)

\* the enablement asked before the agent key is looked at
RunAgent_EnabledFirst(name, definition, output) ==
    LET enabled == ScopeEnabled(name, definition) IN
    IF enabled.exc # NoError
    THEN Call(name, enabled.exc, enabled.commands, FALSE, <<>>)
    ELSE IF ~enabled.value
    THEN Call(name, NoError, enabled.commands, FALSE, <<>>)
    ELSE IF definition.agent = Absent
    THEN Call(name, DyeSyntaxError(<<"scope '", name, "' does not have an agent.">>),
              enabled.commands, FALSE, <<>>)
    ELSE IF definition.agent.v \notin AgentNames
    THEN Call(name, DyeError(definition.agent.v \o <<": unknown agent">>),
              enabled.commands, FALSE, <<>>)
    ELSE Call(name, NoError, enabled.commands, TRUE, output)

\* Scope.run_agent(): output is what agent.run() returns when it is called
RunAgent(name, definition, output) ==
    LET enabled == ScopeEnabled(name, definition) IN
    IF definition.agent = Absent
    THEN Call(name, DyeSyntaxError(<<"scope '", name, "' does not have an agent.">>),
              <<>>, FALSE, <<>>)
    ELSE IF definition.agent.v \notin AgentNames
    THEN Call(name, DyeError(definition.agent.v \o <<": unknown agent">>),
              <<>>, FALSE, <<>>)
    ELSE IF enabled.exc # NoError
    THEN Call(name, enabled.exc, enabled.commands, FALSE, <<>>)
    ELSE IF ~enabled.value
    THEN Call(name, NoError, enabled.commands, FALSE, <<>>)
    ELSE Call(name, NoError, enabled.commands, TRUE, output)

\* a line of shell the agent of the scope generates
Statement(name) == [scope |-> name, line |-> "statement"]
\* the line "# [scope.NAME]"
Comment(name) == [scope |-> name, line |-> "comment"]
\* what agent.run(comments) may return: nothing, or the statements of the
\* scope, behind a comment when comments are asked for
AgentOutputs(name, comments) ==
    { <<>>, <<Statement(name)>> }
    \cup (IF comments THEN { <<Comment(name)>>, <<Comment(name), Statement(name)>> }
          ELSE {})

ScopeNames == {"p", "q"}
\* list(pattern.scopes.keys())
DocumentOrder == <<"p", "q">>
ScopeDefinitions ==
    [agent : {Absent, Str(<<"environment_variables">>), Str(<<"nosuch">>)},
     enabled : {Absent, BoolTrue, BoolFalse, Str(<<"notaboolean">>)},
     enabled_if : {Absent, Str(<<>>), Str(<<"true">>), Str(<<"false">>)},
     styles : {Absent, Str(<<"bold", " ", "#2">>), Str(<<"#2", " ", "on">>)}]
\* args.scope.split(","): "u" is the name of no scope
ScopeArgs == { <<"q", "p">>, <<"q">>, <<"p", "u", "q">> }

\* the command line: no command, apply, or a word that is no command
Commands == {"", "apply", "frobnicate"}
\* a pattern whose scopes differ in nothing but their names
PlainPattern ==
    [n \in ScopeNames |->
        [agent |-> Str(<<"environment_variables">>), enabled |-> Absent,
         enabled_if |-> Absent, styles |-> Absent]]

ScopeInit ==
    /\ ThemeIdle
    /\ styles = [x \in {} |-> NULL_STYLE]
    /\ InterpIdle
    /\ GenIdle
    /\ LoadIdle
    /\ args_command \in Commands
    /\ comment \in BOOLEAN
    /\ scopes \in (IF args_command = "apply" THEN [ScopeNames -> ScopeDefinitions]
                   ELSE {PlainPattern})
    /\ to_apply \in (IF args_command = "apply" THEN {DocumentOrder} \cup ScopeArgs
                     ELSE {DocumentOrder})
    /\ loaded = FALSE
    /\ escaped = ""
    /\ calls = <<>>
    /\ stdout = <<>>
    /\ stderr = <<>>
    /\ exited = FALSE
    /\ exit_code = 0

\* dispatch's except clause: the message to standard error, EXIT_ERROR
Fail(exc) ==
    /\ stderr' = <<"dye", ": ">> \o exc.msg
    /\ exit_code' = EXIT_ERROR
    /\ exited' = TRUE

\* dispatch with `not args.command`: the usage text to standard error
NoCommand ==
    /\ ~exited /\ args_command = ""
    /\ stderr' = <<"usage">>
    /\ exit_code' = EXIT_USAGE
    /\ exited' = TRUE
    /\ UNCHANGED <<loadVars, themeVars, interpVars, genVars, args_command, comment, loaded, escaped, scopes,
                   to_apply, calls, stdout>>

\* dispatch's last branch: the word is no command
UnknownCommand ==
    /\ ~exited /\ args_command \notin {"", "apply"}
    /\ stderr' = <<"dye", ": ", args_command, ": unknown command">>
    /\ exit_code' = EXIT_USAGE
    /\ exited' = TRUE
    /\ UNCHANGED <<loadVars, themeVars, interpVars, genVars, args_command, comment, loaded, escaped, scopes,
                   to_apply, calls, stdout>>

\* Scope._process_scope_styles of every scope of the pattern, in document
\* order: the exception Style.parse raises is no DyeError and leaves dispatch
ScopeStylesRaise(name) ==
    /\ scopes[name].styles # Absent
    /\ StyleParse(scopes[name].styles.v).raised

\* the pattern is loaded: Scope.extract for each of its scopes
LoadPattern ==
    /\ ~exited /\ args_command = "apply" /\ ~loaded
    /\ IF \E i \in 1..Len(DocumentOrder) : ScopeStylesRaise(DocumentOrder[i])
       THEN /\ escaped' = "StyleSyntaxError"
            /\ exited' = TRUE
            /\ UNCHANGED loaded
       ELSE /\ loaded' = TRUE
            /\ UNCHANGED <<escaped, exited>>
    /\ UNCHANGED <<loadVars, themeVars, interpVars, genVars, args_command, comment, scopes, to_apply, calls,
                   stdout, stderr, exit_code>>

\* the loop going on behind a scope that failed, its output put in front
ApplyScope_Prepend ==
    /\ ~exited /\ loaded
    /\ Len(calls) < Len(to_apply)
    /\ LET scope_name == to_apply[Len(calls) + 1] IN
       IF scope_name \notin DOMAIN scopes
       THEN /\ Fail(DyeError(<<scope_name, ": no such scope">>))
            /\ UNCHANGED <<calls, stdout>>
       ELSE \E output \in AgentOutputs(scope_name, comment) :
              LET call == RunAgent(scope_name, scopes[scope_name], output) IN
              /\ calls' = Append(calls, call)
              /\ stdout' = call.printed \o stdout
              /\ UNCHANGED <<stderr, exit_code, exited>>
    /\ UNCHANGED <<loadVars, themeVars, interpVars, genVars, args_command, comment, loaded, escaped, scopes,
                   to_apply>>

\* one turn of the loop of command_apply
ApplyScope ==
    /\ ~exited /\ loaded
    /\ Len(calls) < Len(to_apply)
    /\ LET scope_name == to_apply[Len(calls) + 1] IN
       IF scope_name \notin DOMAIN scopes
       THEN /\ Fail(DyeError(<<scope_name, ": no such scope">>))
            /\ UNCHANGED <<calls, stdout>>
       ELSE \E output \in AgentOutputs(scope_name, comment) :
              LET call == RunAgent(scope_name, scopes[scope_name], output) IN
              /\ calls' = Append(calls, call)
              /\ stdout' = stdout \o call.printed
              /\ IF call.exc # NoError
                 THEN Fail(call.exc)
                 ELSE UNCHANGED <<stderr, exit_code, exited>>
    /\ UNCHANGED <<loadVars, themeVars, interpVars, genVars, args_command, comment, loaded, escaped, scopes,
                   to_apply>>

\* the loop has ended: command_apply and dispatch return
ApplyReturn ==
    /\ ~exited /\ loaded
    /\ Len(calls) = Len(to_apply)
    /\ exit_code' = EXIT_SUCCESS
    /\ exited' = TRUE
    /\ UNCHANGED <<loadVars, themeVars, interpVars, genVars, args_command, comment, loaded, escaped, scopes,
                   to_apply, calls, stdout, stderr>>

ScopeNext ==
    \/ NoCommand
    \/ UnknownCommand
    \/ LoadPattern
    \/ ApplyScope
    \/ ApplyReturn

SpecScope == ScopeInit /\ [][ScopeNext]_vars

(***************************************************************************)
(* Properties of the scopes.                                               *)
(***************************************************************************)
\* the atoms of a message
Atoms(msg) == { msg[i] : i \in 1..Len(msg) }

\* run_agent of the scope has come to ask _enabled
AsksEnabled(definition) ==
    definition.agent # Absent /\ definition.agent.v \in AgentNames

\* C9: for every combination of the keys of a scope that run_agent asks for
\* its enablement: a boolean `enabled` decides; an `enabled` that is no
\* boolean is a syntax error naming the scope and the key; else an absent or
\* empty `enabled_if` enables; else the scope is enabled iff the shell
\* command exits with status 0, and a nonzero status is no error.
C9_ScopeEnablement ==
    \A i \in 1..Len(calls) :
        LET c == calls[i]
            d == scopes[c.scope]
        IN  AsksEnabled(d)
            => IF d.enabled # Absent /\ d.enabled.t = "bool"
               THEN c.exc = NoError /\ (c.ran <=> d.enabled = BoolTrue)
               ELSE IF d.enabled # Absent
               THEN /\ c.exc.type = "DyeSyntaxError"
                    /\ {c.scope, "enabled"} \subseteq Atoms(c.exc.msg)
                    /\ ~c.ran
                    /\ exited /\ exit_code = EXIT_ERROR
               ELSE IF d.enabled_if = Absent \/ d.enabled_if.v = <<>>
               THEN c.exc = NoError /\ c.ran /\ c.commands = <<>>
               ELSE /\ c.exc = NoError
                    /\ c.commands = <<d.enabled_if.v>>
                    /\ (c.ran <=> ReturnCode(d.enabled_if.v) = 0)

\* apply has returned success after one scope was disabled by the nonzero
\* status of its command and another was run after the status 0 of its command
C9_Witness ==
    /\ exited /\ exit_code = EXIT_SUCCESS
    /\ \E i \in 1..Len(calls) :
          LET d == scopes[calls[i].scope] IN
          /\ AsksEnabled(d) /\ d.enabled = Absent
          /\ d.enabled_if = Str(<<"false">>)
          /\ calls[i].commands = <<<<"false">>>>
          /\ ~calls[i].ran
    /\ \E j \in 1..Len(calls) :
          LET d == scopes[calls[j].scope] IN
          /\ AsksEnabled(d) /\ d.enabled = Absent
          /\ d.enabled_if = Str(<<"true">>)
          /\ calls[j].ran

\* C10: for a scope with a boolean `enabled` the shell runs no command of
\* `enabled_if`; for a scope with enabled = false the agent is never run
\* and standard output holds no statement of the scope, whatever its
\* `enabled_if` is.
C10_EnabledAuthoritative ==
    \A i \in 1..Len(calls) :
        LET c == calls[i]
            d == scopes[c.scope]
        IN  /\ (d.enabled # Absent /\ d.enabled.t = "bool") => c.commands = <<>>
            /\ d.enabled = BoolFalse
                 => /\ ~c.ran
                    /\ c.printed = <<>>
                    /\ \A n \in 1..Len(stdout) : stdout[n].scope # c.scope

\* apply has returned after a scope with enabled = false and an enabled_if
\* that exits with status 0, and the scope after it has printed its statements
C10_Witness ==
    /\ exited /\ exit_code = EXIT_SUCCESS
    /\ Len(calls) = 2
    /\ LET d == scopes[calls[1].scope] IN
       /\ AsksEnabled(d) /\ d.enabled = BoolFalse
       /\ d.enabled_if = Str(<<"true">>)
    /\ calls[2].ran
    /\ stdout = <<Statement(calls[2].scope)>>

\* the keys of the scope disable it
Disabled(d) ==
    \/ d.enabled = BoolFalse
    \/ /\ d.enabled = Absent
       /\ d.enabled_if # Absent /\ d.enabled_if.v # <<>>
       /\ ReturnCode(d.enabled_if.v) # 0

\* the lines of standard output
Lines == { stdout[n] : n \in 1..Len(stdout) }

\* C11 as stated: when comments are asked for, a disabled scope that was run
\* has its comment line on standard output and none of its statements.
C11_DisabledScopeComment ==
    \A i \in 1..Len(calls) :
        LET c == calls[i]
            d == scopes[c.scope]
        IN  (comment /\ AsksEnabled(d) /\ Disabled(d))
            => /\ Comment(c.scope) \in Lines
               /\ Statement(c.scope) \notin Lines

\* C12 as stated: a scope whose agent is no key of the class map makes
\* dispatch return 1 with a message on standard error that holds the name of
\* the scope and the name of the agent.
C12_UnknownAgentMessage ==
    \A i \in 1..Len(calls) :
        LET c == calls[i]
            d == scopes[c.scope]
        IN  (d.agent # Absent /\ d.agent.v \notin AgentNames)
            => /\ exited /\ exit_code = EXIT_ERROR
               /\ Atoms(d.agent.v) \subseteq Atoms(stderr)
               /\ c.scope \in Atoms(stderr)

\* C13: a scope without the key agent fails with a syntax error whose
\* message names the scope, dispatch returns 1, and neither the enablement
\* is asked nor a command of enabled_if run, whatever enabled and enabled_if
\* are.
C13_NoAgentBeforeEnablement ==
    \A i \in 1..Len(calls) :
        LET c == calls[i]
            d == scopes[c.scope]
        IN  d.agent = Absent
            => /\ c.exc.type = "DyeSyntaxError"
               /\ c.scope \in Atoms(c.exc.msg)
               /\ c.commands = <<>>
               /\ ~c.ran /\ c.printed = <<>>
               /\ i = Len(calls)
               /\ exited /\ exit_code = EXIT_ERROR
               /\ stderr = <<"dye", ": ">> \o c.exc.msg

\* a scope with enabled = false, an enabled_if that would exit with status
\* 0 and no agent has failed
C13_Witness ==
    /\ exited /\ exit_code = EXIT_ERROR
    /\ calls # <<>>
    /\ LET d == scopes[calls[Len(calls)].scope] IN
       /\ d.agent = Absent
       /\ d.enabled = BoolFalse
       /\ d.enabled_if = Str(<<"true">>)
    /\ calls[Len(calls)].exc.type = "DyeSyntaxError"

\* C14 as stated: dispatch returns 0 on success, 2 when the command line
\* names no command or an unknown one, and 1 for every error raised while
\* the command runs, with "dye: message" on standard error; no exception
\* leaves dispatch.
C14_DispatchExitCodes ==
    exited
    => /\ escaped = ""
       /\ exit_code \in {EXIT_SUCCESS, EXIT_ERROR, EXIT_USAGE}
       /\ (exit_code = EXIT_USAGE <=> args_command # "apply")
       /\ exit_code = EXIT_ERROR
            => /\ Len(stderr) > 2
               /\ SubSeq(stderr, 1, 2) = <<"dye", ": ">>
       /\ exit_code = EXIT_SUCCESS => stderr = <<>>

\* the output of the calls, in their order
RECURSIVE Printed(_)
Printed(n) == IF n = 0 THEN <<>> ELSE Printed(n - 1) \o calls[n].printed

\* C15: apply runs the scopes of to_apply one at a time in their order and
\* standard output is their output in that order; a scope that fails, or a
\* name that is no scope of the pattern, ends the run with exit code 1: the
\* output of the scopes before it stays and no scope behind it is run.
C15_ApplyInOrder ==
    loaded
    => /\ Len(calls) <= Len(to_apply)
       /\ \A i \in 1..Len(calls) :
             /\ calls[i].scope = to_apply[i]
             /\ i < Len(calls) => calls[i].exc = NoError
       /\ stdout = Printed(Len(calls))
       /\ (exited /\ exit_code = EXIT_ERROR)
            <=> \/ calls # <<>> /\ calls[Len(calls)].exc # NoError
                \/ /\ exited /\ Len(calls) < Len(to_apply)
                   /\ to_apply[Len(calls) + 1] \notin DOMAIN scopes
       /\ (exited /\ exit_code = EXIT_SUCCESS)
            <=> /\ exited /\ Len(calls) = Len(to_apply)
                /\ \A i \in 1..Len(calls) : calls[i].exc = NoError

\* the scopes p, u, q were asked for: p has printed its statement, u is no
\* scope, the exit code is 1 and q was not run
C15_Witness ==
    /\ to_apply = <<"p", "u", "q">>
    /\ exited /\ exit_code = EXIT_ERROR
    /\ Len(calls) = 1 /\ calls[1].ran
    /\ stdout = <<Statement("p")>>

(***************************************************************************)
(* The generators of shell_themer/generators.py.  A generator is built     *)
(* from the definition of one scope, the styles and the variables of the   *)
(* theme; the constructor parses the scope's own styles into scope_styles  *)
(* and generate() builds the shell statements.  A text is a sequence of    *)
(* atoms as above; the separators of the output (" ", "=", ":", ",", ";",  *)
(* the double quote and the newline) are atoms of their own.               *)
(***************************************************************************)
\* one item of a table; a table is the list of its items in the order of
\* the document, a table or a list as a value has the type "table" or "list"
Entry(key, value) == [key |-> key, value |-> value]

\* key in table
HasKey(table, key) == \E i \in DOMAIN table : table[i].key = key
\* table[key]
Item(table, key) == table[CHOOSE i \in DOMAIN table : table[i].key = key].value

\* sep.join(items)
RECURSIVE Join(_, _)
Join(sep, items) ==
    IF items = <<>> THEN <<>>
    ELSE IF Len(items) = 1 THEN items[1]
    ELSE items[1] \o <<sep>> \o Join(sep, Tail(items))

\* generate() has not been called
NotGenerated == [done |-> FALSE, err |-> "", msg |-> <<>>, items |-> <<>>, out |-> <<>>]
\* generate() returned the text s, put together from the list items; a
\* generator that prints its statement returns no text
Generated(items, s) == [done |-> TRUE, err |-> "", msg |-> <<>>, items |-> items, out |-> s]
\* generate() raised
GenerateRaised(e, msg) == [done |-> TRUE, err |-> e, msg |-> msg, items |-> <<>>, out |-> <<>>]

(***************************************************************************)
(* EnvironmentVariables                                                    *)
(***************************************************************************)
\* a string is iterated as python iterates it: one item per character
Unsets_Iterated(unsets) ==
    IF unsets.t = "str" THEN [i \in 1..Len(unsets.v) |-> <<unsets.v[i]>>] ELSE unsets.v

\* the entries of "unset": a string stands for the list that holds it
Unsets(unsets) == IF unsets.t = "str" THEN <<unsets.v>> ELSE unsets.v

\* self.interp.interpolate(text) for each text of the list in turn: the
\* interpolated texts, or the first exception
RECURSIVE InterpolateAll(_)
InterpolateAll(texts) ==
    IF texts = <<>> THEN Returned(<<>>)
    ELSE LET new == Interpolate(Head(texts), 1)
             rest == InterpolateAll(Tail(texts))
         IN  IF new.err # "" THEN new
             ELSE IF rest.err # "" THEN rest
             ELSE Returned(<<new.out>> \o rest.out)

\* EnvironmentVariables.generate(): a line for every unset, then a line for
\* every item of exports; the entry, the name and the value are interpolated
\* as the loops reach them
EnvironmentVariablesGenerate ==
    /\ generator = "environment_variables"
    /\ ~generated.done /\ generated.err = ""
    /\ LET unsets == IF HasKey(scopedef, "unset") THEN Unsets(Item(scopedef, "unset")) ELSE <<>>
           exports == IF HasKey(scopedef, "export") THEN Item(scopedef, "export").v ELSE <<>>
           n == Len(unsets)
       IN  \E new \in { InterpolateAll(unsets \o [i \in 1..2 * Len(exports) |->
                                                    IF i % 2 = 1 THEN exports[(i + 1) \div 2].key
                                                    ELSE exports[i \div 2].value.v]) } :
           \E output \in { [i \in 1..n + Len(exports) |->
                               IF new.err # "" THEN <<>>
                               ELSE IF i <= n THEN <<"unset", " ">> \o new.out[i]
                               ELSE <<"export", " ">> \o new.out[n + 2 * (i - n) - 1]
                                    \o <<"=", "\"">> \o new.out[n + 2 * (i - n)] \o <<"\"">>] } :
              generated' = IF new.err # "" THEN GenerateRaised(new.err, <<>>)
                           ELSE Generated(output, Join(NL, output))
    /\ UNCHANGED <<loadVars, themeVars, interpVars, scopeVars, generator, scopedef, scope_styles>>

(***************************************************************************)
(* Fzf                                                                     *)
(***************************************************************************)
\* _fzf_color_from_rich_color(color): -1 for the default color, the number
\* of a standard color, the hex code of a truecolor
FzfColorFromRichColor(color) ==
    IF color = "default" THEN "-1"
    ELSE IF color = "red" THEN "1"
    ELSE TripletHex(color)

\* the attributes in the order of the bits of rich's Style
FzfAttribsFromStyle_BitOrder(style) ==
    <<"regular">>
    \o (IF style.bold THEN <<":", "bold">> ELSE <<>>)
    \o (IF "dim" \in style.attrs THEN <<":", "dim">> ELSE <<>>)
    \o (IF "italic" \in style.attrs THEN <<":", "italic">> ELSE <<>>)
    \o (IF "underline" \in style.attrs THEN <<":", "underline">> ELSE <<>>)
    \o (IF "reverse" \in style.attrs THEN <<":", "reverse">> ELSE <<>>)
    \o (IF "strike" \in style.attrs THEN <<":", "strikethrough">> ELSE <<>>)

\* _fzf_attribs_from_style(style)
FzfAttribsFromStyle(style) ==
    <<"regular">>
    \o (IF style.bold THEN <<":", "bold">> ELSE <<>>)
    \o (IF "underline" \in style.attrs THEN <<":", "underline">> ELSE <<>>)
    \o (IF "reverse" \in style.attrs THEN <<":", "reverse">> ELSE <<>>)
    \o (IF "dim" \in style.attrs THEN <<":", "dim">> ELSE <<>>)
    \o (IF "italic" \in style.attrs THEN <<":", "italic">> ELSE <<>>)
    \o (IF "strike" \in style.attrs THEN <<":", "strikethrough">> ELSE <<>>)

\* _fzf_from_style(name, style); a Color is a tuple and is always true, so
\* "if style.color" asks whether the style has the color at all
FzfFromStyle(name, style) ==
    LET name_map ==
            [n \in {"text", "current-line", "selected-line", "preview"} |->
                CASE n = "text" -> <<"fg", "bg">>
                  [] n = "current-line" -> <<"fg+", "bg+">>
                  [] n = "selected-line" -> <<"selected-fg", "selected-bg">>
                  [] n = "preview" -> <<"preview-fg", "preview-bg">>]
        fg(fgname) ==
            IF style.color # ""
            THEN << <<fgname, ":", FzfColorFromRichColor(style.color), ":">>
                    \o FzfAttribsFromStyle(style) >>
            ELSE <<>>
        bg(bgname) ==
            IF style.bgcolor # ""
            THEN << <<bgname, ":", FzfColorFromRichColor(style.bgcolor)>> >>
            ELSE <<>>
        fzf_colors == IF name \in DOMAIN name_map
                      THEN fg(name_map[name][1]) \o bg(name_map[name][2])
                      ELSE fg(name)
    IN  Join(",", fzf_colors)

\* the loop over opts.items() of Fzf.generate, the strings of the table
\* already interpolated: a string gives key='value', true the bare key,
\* anything else nothing
RECURSIVE FzfOpts(_, _)
FzfOpts(opts, new) ==
    IF opts = <<>> THEN <<>>
    ELSE IF Head(opts).value.t = "str"
    THEN <<" ">> \o Head(opts).key \o <<"=", "'">> \o Head(new) \o <<"'">>
         \o FzfOpts(Tail(opts), Tail(new))
    ELSE (IF Head(opts).value = BoolTrue THEN <<" ">> \o Head(opts).key ELSE <<>>)
         \o FzfOpts(Tail(opts), new)

\* Fzf.generate(): prints the statement
FzfGenerate ==
    /\ generator = "fzf"
    /\ ~generated.done /\ generated.err = ""
    /\ LET opts == IF HasKey(scopedef, "opt") THEN Item(scopedef, "opt").v ELSE <<>>
           strings == SelectSeq(opts, LAMBDA o : o.value.t = "str")
           colorbase == IF HasKey(scopedef, "colorbase")
                        THEN Item(scopedef, "colorbase").v \o <<",">> ELSE <<>>
           varname == IF HasKey(scopedef, "environment_variable")
                      THEN Item(scopedef, "environment_variable").v
                      ELSE <<"FZF_DEFAULT_OPTS">>
       IN  \E new \in { InterpolateAll([i \in DOMAIN strings |-> strings[i].value.v]
                                       \o <<varname>>) },
              colorlist \in { [i \in DOMAIN scope_styles |->
                                 FzfFromStyle(scope_styles[i].key, scope_styles[i].value)] } :
              IF new.err # ""
              THEN /\ generated' = GenerateRaised(new.err, <<>>)
                   /\ UNCHANGED stdout
              ELSE /\ generated' = Generated(colorlist, <<>>)
                   /\ stdout' =
                        Append(stdout,
                               <<"export", " ">> \o new.out[Len(new.out)] \o <<"=", "\"">>
                               \o FzfOpts(opts, new.out)
                               \o (IF colorbase # <<>> \/ colorlist # <<>>
                                   THEN <<" ", "--color", "=", "'">> \o colorbase
                                        \o Join(",", colorlist) \o <<"'">>
                                   ELSE <<>>)
                               \o <<"\"">>)
    /\ UNCHANGED <<loadVars, themeVars, interpVars, generator, scopedef, scope_styles>>
    /\ UNCHANGED <<args_command, comment, loaded, escaped, scopes, to_apply, calls, stderr,
                   exited, exit_code>>

(***************************************************************************)
(* LsColors, ExaColors and Eza.  The three share ls_colors_from_style,     *)
(* which turns one style into an entry "code=ansi codes"; each has a map   *)
(* from a friendly name to the code of the tool, kept here as the list of  *)
(* its items in the order of the source.                                   *)
(***************************************************************************)
\* the program and the scope the generator was built for
Prog == "shell-themer"
Scope == "myscope"

\* the exception of shell_themer
ThemeError(msg) == [err |-> "ThemeError", msg |-> msg]

LS_COLORS_BASE_MAP ==
    << <<"text", "no">>, <<"file", "fi">>, <<"directory", "di">>, <<"symlink", "ln">>,
       <<"multi_hard_link", "mh">>, <<"pipe", "pi">>, <<"socket", "so">>,
       <<"door", "do">>, <<"block_device", "bd">>, <<"character_device", "cd">>,
       <<"broken_symlink", "or">>, <<"missing_symlink_target", "mi">>,
       <<"setuid", "su">>, <<"setgid", "sg">>, <<"sticky", "st">>,
       <<"other_writable", "ow">>, <<"sticky_other_writable", "tw">>,
       <<"executable_file", "ex">>, <<"file_with_capability", "ca">> >>

EXA_COLORS_BASE_MAP ==
    << <<"text", "no">>, <<"file", "fi">>, <<"directory", "di">>, <<"symlink", "ln">>,
       <<"multi_hard_link", "mh">>, <<"pipe", "pi">>, <<"socket", "so">>,
       <<"door", "do">>, <<"block_device", "bd">>, <<"character_device", "cd">>,
       <<"broken_symlink", "or">>, <<"missing_symlink_target", "mi">>,
       <<"setuid", "su">>, <<"setgid", "sg">>, <<"sticky", "st">>,
       <<"other_writable", "ow">>, <<"sticky_other_writable", "tw">>,
       <<"executable_file", "ex">>, <<"file_with_capability", "ca">>,
       <<"perms_user_read", "ur">>, <<"perms_user_write", "uw">>,
       <<"perms_user_execute_files", "ux">>,
       <<"perms_user_execute_directories", "ue">>, <<"perms_group_read", "gr">>,
       <<"perms_group_write", "gw">>, <<"perms_group_execute", "gx">>,
       <<"perms_other_read", "tr">>, <<"perms_other_write", "tw">>,
       <<"perms_other_execute", "tx">>, <<"perms_suid_files", "su">>,
       <<"perms_sticky_directories", "sf">>, <<"perms_extended_attribute", "xa">>,
       <<"size_number", "sn">>, <<"size_unit", "sb">>, <<"df", "df">>, <<"ds", "ds">>,
       <<"uu", "uu">>, <<"un", "un">>, <<"gu", "gu">>, <<"gn", "gn">>, <<"lc", "lc">>,
       <<"lm", "lm">>, <<"ga", "ga">>, <<"gm", "gm">>, <<"gd", "gd">>, <<"gv", "gv">>,
       <<"gt", "gt">>, <<"punctuation", "xx">>, <<"date_time", "da">>, <<"in", "in">>,
       <<"bl", "bl">>, <<"column_headers", "hd">>, <<"lp", "lp">>, <<"cc", "cc">>,
       <<"b0", "b0">> >>

EZA_COLORS_BASE_MAP ==
    << <<"filekinds:normal", "fi">>, <<"filekinds:directory", "di">>,
       <<"filekinds:symlink", "ln">>, <<"filekinds:pipe", "pi">>,
       <<"filekinds:block_device", "bd">>, <<"filekinds:char_device", "cd">>,
       <<"filekinds:socket", "so">>, <<"filekinds:special", "sp">>,
       <<"filekinds:executable", "ex">>, <<"filekinds:mount_point", "mp">>,
       <<"perms:user_read", "ur">>, <<"perms:user_write", "uw">>,
       <<"perms:user_executable_file", "ux">>, <<"perms:user_execute_other", "ue">>,
       <<"perms:group_read", "gr">>, <<"perms:group_write", "gw">>,
       <<"perms:group_execute", "gx">>, <<"perms:other_read", "tr">>,
       <<"perms:other_write", "tw">>, <<"perms:other_execute", "tx">>,
       <<"perms:special_user_file", "su">>, <<"perms:special_other", "sf">>,
       <<"perms:attribute", "xa">>, <<"size:major", "df">>, <<"size:minor", "ds">>,
       <<"size:number_style", "sn">>, <<"size:number_byte", "nb">>,
       <<"size:number_kilo", "nk">>, <<"size:number_mega", "nm">>,
       <<"size:number_giga", "ng">>, <<"size:number_huge", "nt">>,
       <<"size:unit_style", "sb">>, <<"size:unit_byte", "ub">>,
       <<"size:unit_kilo", "uk">>, <<"size:unit_mega", "um">>,
       <<"size:unit_giga", "ug">>, <<"size:unit_huge", "ut">>,
       <<"users:user_you", "uu">>, <<"users:user_other", "un">>,
       <<"users:user_root", "uR">>, <<"users:group_yours", "gu">>,
       <<"users:group_other", "gn">>, <<"users:group_root", "gR">>,
       <<"links:normal", "lc">>, <<"links:multi_link_file", "lm">>,
       <<"git:new", "ga">>, <<"git:modified", "gm">>, <<"git:deleted", "gd">>,
       <<"git:renamed", "gv">>, <<"git:typechange", "gt">>, <<"git:ignored", "gi">>,
       <<"git:conflicted", "gc">>, <<"git_repo:branch_main", "Gm">>,
       <<"git_repo:branch_other", "Go">>, <<"git_repo:git_clean", "Gc">>,
       <<"git_repo:git_dirty", "Gd">>, <<"selinux:colon", "Sn">>,
       <<"selinux:user", "Su">>, <<"selinux:role", "Sr">>, <<"selinux:typ", "St">>,
       <<"selinux:range", "Sl">>, <<"file_type:image", "im">>,
       <<"file_type:video", "vi">>, <<"file_type:music", "mu">>,
       <<"file_type:lossless", "lo">>, <<"file_type:crypto", "cr">>,
       <<"file_type:document", "do">>, <<"file_type:compressed", "co">>,
       <<"file_type:temp", "tm">>, <<"file_type:compiled", "cm">>,
       <<"file_type:build", "bu">>, <<"file_type:source", "sc">>,
       <<"punctuation", "xx">>, <<"date", "da">>, <<"inode", "in">>,
       <<"blocks", "bl">>, <<"header", "hd">>, <<"octal", "oc">>, <<"flags", "ff">>,
       <<"symlink_path", "lp">>, <<"control_char", "cc">>,
       <<"broken_path_overlay", "b0">>, <<"broken_symlink", "or">> >>

\* the loop that builds the map of a tool from the items: every friendly
\* name and every code maps to the code, the last assignment to a key wins
CodeMap(base) ==
    [n \in {base[i][1] : i \in DOMAIN base} \cup {base[i][2] : i \in DOMAIN base} |->
        LET assigning == {i \in DOMAIN base : n = base[i][1] \/ n = base[i][2]}
        IN  base[CHOOSE i \in assigning : \A j \in assigning : j <= i][2]]

LS_COLORS_MAP == CodeMap(LS_COLORS_BASE_MAP)
EXA_COLORS_MAP == CodeMap(EXA_COLORS_BASE_MAP)
EZA_COLORS_MAP == CodeMap(EZA_COLORS_BASE_MAP)

\* the codes of style.render(): the attributes by their bits, the
\* foreground, the background
AnsiCodes(style) ==
    LET attr(on, code) == IF on THEN <<code>> ELSE <<>>
        color(c, std, def, ext) ==
            IF c = "" THEN <<>>
            ELSE IF c = "default" THEN <<def>>
            ELSE IF c = "red" THEN <<std>>
            ELSE <<ext, "2", NoHash(TripletHex(c))>>
        codes == attr(style.bold, "1") \o attr("dim" \in style.attrs, "2")
                 \o attr("italic" \in style.attrs, "3")
                 \o attr("underline" \in style.attrs, "4")
                 \o attr("reverse" \in style.attrs, "7")
                 \o attr("strike" \in style.attrs, "9")
                 \o color(style.color, "31", "39", "38")
                 \o color(style.bgcolor, "41", "49", "48")
    IN  Join(";", [i \in DOMAIN codes |-> <<codes[i]>>])

\* ls_colors_from_style(name, style, mapp, allow_unknown): the code and the
\* entry.  A style is false when it sets nothing; style.color is None for a
\* style without a foreground, and None.type raises AttributeError.
LsColorsFromStyle(name, style, mapp, allow_unknown) ==
    IF style = NULL_STYLE
    THEN [err |-> "", msg |-> <<>>, mapname |-> "", render |-> <<>>]
    ELSE IF name \notin DOMAIN mapp /\ ~allow_unknown
    THEN ThemeError(<<Prog, ": unknown style '", name, "' while processing scope '",
                      Scope, "'">>)
         @@ [mapname |-> "", render |-> <<>>]
    ELSE LET mapname == IF name \in DOMAIN mapp THEN mapp[name] ELSE name IN
         IF style.color = ""
         THEN [err |-> "AttributeError", msg |-> <<>>, mapname |-> "", render |-> <<>>]
         ELSE [err |-> "", msg |-> <<>>, mapname |-> mapname,
               render |-> <<mapname, "=">>
                          \o (IF style.color = "default" THEN <<"0">> ELSE AnsiCodes(style))]

\* assert_bool(value, key=..., generator=..., prog=..., scope=...)
AssertBool(value, key) ==
    IF value.t = "bool" THEN [err |-> "", msg |-> <<>>]
    ELSE ThemeError(<<Prog, ": ", generator, " generator for scope '", Scope,
                      "' requires '", key, "' to be true or false">>)

\* the loop over scope_styles.items() from the i-th style on: the codes and
\* the entries of the styles that are not empty
RECURSIVE StyleEntries(_, _, _)
StyleEntries(i, mapp, allow_unknown) ==
    IF i > Len(scope_styles) THEN [err |-> "", msg |-> <<>>, havecodes |-> <<>>, outlist |-> <<>>]
    ELSE IF scope_styles[i].value = NULL_STYLE THEN StyleEntries(i + 1, mapp, allow_unknown)
    ELSE LET one == LsColorsFromStyle(scope_styles[i].key, scope_styles[i].value, mapp,
                                     allow_unknown)
             rest == StyleEntries(i + 1, mapp, allow_unknown)
         IN  IF one.err # ""
             THEN [err |-> one.err, msg |-> one.msg, havecodes |-> <<>>, outlist |-> <<>>]
             ELSE IF rest.err # "" THEN rest
             ELSE [err |-> "", msg |-> <<>>,
                   havecodes |-> <<one.mapname>> \o rest.havecodes,
                   outlist |-> <<one.render>> \o rest.outlist]

\* the loop over LS_COLORS_BASE_MAP.items() when clear_builtin is true: the
\* entry of the style "default" for every code that is not in havecodes
RECURSIVE ClearBuiltin(_, _)
ClearBuiltin(base, havecodes) ==
    IF base = <<>> THEN <<>>
    ELSE IF \E i \in DOMAIN havecodes : havecodes[i] = Head(base)[2]
    THEN ClearBuiltin(Tail(base), havecodes)
    ELSE <<LsColorsFromStyle(Head(base)[1], StyleParse(<<"default">>).style,
                             LS_COLORS_MAP, FALSE).render>>
         \o ClearBuiltin(Tail(base), havecodes)

\* generate() of the three: clear_builtin is checked, the styles give
\* their entries, clear_builtin adds "reset" before them (clear_style is
\* "reset") or, after them, the entry of the style "default" for the codes
\* they left out; the name of the variable is interpolated when the scope
\* gives one.  LsColors returns the statement, the other two print it.
ColorsGenerate(default_varname, mapp, allow_unknown, clear_style, prints) ==
    /\ ~generated.done /\ generated.err = ""
    /\ \E checked \in { IF HasKey(scopedef, "clear_builtin")
                         THEN AssertBool(Item(scopedef, "clear_builtin"), "clear_builtin")
                         ELSE [err |-> "", msg |-> <<>>] },
          entries \in { StyleEntries(1, mapp, allow_unknown) },
          varname \in { IF HasKey(scopedef, "environment_variable")
                         THEN InterpolateAll(<<Item(scopedef, "environment_variable").v>>)
                         ELSE Returned(<< <<default_varname>> >>) } :
       \E outlist \in { IF ~HasKey(scopedef, "clear_builtin")
                             \/ Item(scopedef, "clear_builtin") # BoolTrue
                         THEN entries.outlist
                         ELSE IF clear_style = "reset"
                         THEN << <<"reset">> >> \o entries.outlist
                         ELSE entries.outlist
                              \o ClearBuiltin(LS_COLORS_BASE_MAP, entries.havecodes) } :
       \E statement \in { IF varname.err # "" THEN <<>>
                           ELSE <<"export", " ">> \o varname.out[1] \o <<"=", "\"">>
                                \o Join(":", outlist) \o <<"\"">> } :
          IF checked.err # "" \/ entries.err # "" \/ varname.err # ""
          THEN /\ generated' = IF checked.err # "" THEN GenerateRaised(checked.err, checked.msg)
                               ELSE IF entries.err # ""
                               THEN GenerateRaised(entries.err, entries.msg)
                               ELSE GenerateRaised(varname.err, <<>>)
               /\ UNCHANGED stdout
          ELSE /\ generated' = Generated(outlist, IF prints THEN <<>> ELSE statement)
               /\ stdout' = IF prints THEN Append(stdout, statement) ELSE stdout
    /\ UNCHANGED <<loadVars, themeVars, interpVars, generator, scopedef, scope_styles>>
    /\ UNCHANGED <<args_command, comment, loaded, escaped, scopes, to_apply, calls, stderr,
                   exited, exit_code>>

\* LsColors.generate()
LsColorsGenerate ==
    /\ generator = "ls_colors"
    /\ ColorsGenerate("LS_COLORS", LS_COLORS_MAP, FALSE, "default", FALSE)

\* ExaColors.generate()
ExaColorsGenerate ==
    /\ generator = "exa_colors"
    /\ ColorsGenerate("EXA_COLORS", EXA_COLORS_MAP, FALSE, "reset", TRUE)

\* Eza.generate()
EzaGenerate ==
    /\ generator = "eza"
    /\ ColorsGenerate("EZA_COLORS", EZA_COLORS_MAP, TRUE, "reset", TRUE)

(***************************************************************************)
(* Iterm.  Every helper appends its lines to the list output; a line is    *)
(* an echo command around one escape sequence.                             *)
(***************************************************************************)
\* what a helper did: the lines it appended, or the exception it raised
Appended(lines) == [err |-> "", msg |-> <<>>, out |-> lines]

\* color.get_truecolor().hex without the "#": the triplet of a truecolor,
\* of a standard color, of the default foreground of the terminal theme
GetTruecolor(color) ==
    IF color = "default" THEN "000000"
    ELSE IF color = "red" THEN "800000"
    ELSE NoHash(TripletHex(color))

\* _iterm_profile(output)
ItermProfile ==
    IF HasKey(scopedef, "profile")
    THEN Appended(<< <<"builtin echo -en \"\\e]1337;", "SetProfile=">> \o Item(scopedef, "profile").v
                     \o <<"\\a\"">> >>)
    ELSE Appended(<<>>)

\* _iterm_tab(output): one line for the default color, else three, one for
\* each of red, green and blue; style.color is None without a foreground
ItermTab ==
    IF ~HasKey(scope_styles, "tab") THEN Appended(<<>>)
    ELSE IF Item(scope_styles, "tab").color = "" THEN [err |-> "AttributeError", msg |-> <<>>, out |-> <<>>]
    ELSE IF Item(scope_styles, "tab").color = "default"
    THEN Appended(<< <<"builtin echo -en \"\\e]6;1;bg;*;default\\a\"">> >>)
    ELSE LET clr == GetTruecolor(Item(scope_styles, "tab").color)
             cmd(component) == <<"builtin echo -en \"\\e]6;1;bg;", component, ";brightness;",
                                 clr, component, "\\a\"">>
         IN  Appended(<<cmd("red"), cmd("green"), cmd("blue")>>)

\* _iterm_render_style(output, style_name, iterm_key)
ItermRenderStyle(style_name, iterm_key) ==
    IF ~HasKey(scope_styles, style_name) THEN Appended(<<>>)
    ELSE IF Item(scope_styles, style_name).color = ""
    THEN [err |-> "AttributeError", msg |-> <<>>, out |-> <<>>]
    ELSE Appended(<< <<"builtin echo -en \"\\e]1337;", "SetColors=", iterm_key, "=",
                       GetTruecolor(Item(scope_styles, style_name).color), "\\a\"">> >>)

\* CURSOR_MAP
CURSOR_MAP ==
    [c \in {"block", "box", "vertical_bar", "vertical", "bar", "pipe", "underline"} |->
        CASE c \in {"block", "box"} -> "0"
          [] c \in {"vertical_bar", "vertical", "bar", "pipe"} -> "1"
          [] c = "underline" -> "2"]

\* _iterm_cursor(output): the shape, then the color of the cursor
ItermCursor ==
    LET cursor == IF HasKey(scopedef, "cursor") THEN Item(scopedef, "cursor") ELSE Absent
        given == cursor # Absent /\ cursor # Str(<<>>) /\ cursor # BoolFalse
        shape == IF ~given THEN Appended(<<>>)
                 ELSE IF cursor = Str(<<"profile">>)
                 THEN Appended(<< <<"builtin echo -en \"\\e[0q\"">> >>)
                 ELSE IF cursor.t = "str" /\ Len(cursor.v) = 1 /\ cursor.v[1] \in DOMAIN CURSOR_MAP
                 THEN Appended(<< <<"builtin echo -en \"\\e]1337;", "CursorShape=",
                                    CURSOR_MAP[cursor.v[1]], "\\a\"">> >>)
                 ELSE ThemeError(<<Prog, ": unknown cursor '">> \o cursor.v
                                 \o <<"' while processing scope '", Scope, "'">>)
                      @@ [out |-> <<>>]
        color == ItermRenderStyle("cursor", "curbg")
    IN  IF shape.err # "" THEN shape
        ELSE IF color.err # "" THEN color
        ELSE Appended(shape.out \o color.out)

\* the helpers in an order that starts with the cursor
ItermSteps_CursorFirst == <<"cursor", "profile", "tab", "foreground", "background">>

\* the helpers in the order generate() calls them
ItermSteps == <<"profile", "tab", "foreground", "background", "cursor">>

\* the calls of the helpers one after the other on the same list
RECURSIVE ItermCalls(_)
ItermCalls(steps) ==
    IF steps = <<>> THEN Appended(<<>>)
    ELSE LET one == CASE Head(steps) = "profile" -> ItermProfile
                      [] Head(steps) = "tab" -> ItermTab
                      [] Head(steps) = "foreground" -> ItermRenderStyle("foreground", "fg")
                      [] Head(steps) = "background" -> ItermRenderStyle("background", "bg")
                      [] Head(steps) = "cursor" -> ItermCursor
             rest == ItermCalls(Tail(steps))
         IN  IF one.err # "" THEN one
             ELSE IF rest.err # "" THEN rest
             ELSE Appended(one.out \o rest.out)

\* generate() that hands on each line as it is built: what the helpers
\* before the cursor appended is out when the cursor raises
ItermGenerate_AsBuilt ==
    /\ generator = "iterm"
    /\ ~generated.done /\ generated.err = ""
    /\ LET output == ItermCalls(ItermSteps)
           built == ItermCalls(SubSeq(ItermSteps, 1, 4))
       IN  generated' = IF output.err # ""
                        THEN [GenerateRaised(output.err, output.msg)
                                 EXCEPT !.items = built.out, !.out = Join(NL, built.out)]
                        ELSE Generated(output.out, Join(NL, output.out))
    /\ UNCHANGED <<loadVars, themeVars, interpVars, scopeVars, generator, scopedef, scope_styles>>

\* Iterm.generate()
ItermGenerate ==
    /\ generator = "iterm"
    /\ ~generated.done /\ generated.err = ""
    /\ LET output == ItermCalls(ItermSteps)
       IN  generated' = IF output.err # "" THEN GenerateRaised(output.err, output.msg)
                        ELSE Generated(output.out, Join(NL, output.out))
    /\ UNCHANGED <<loadVars, themeVars, interpVars, scopeVars, generator, scopedef, scope_styles>>

(***************************************************************************)
(* The constructor and the scopes the generators are built from.           *)
(***************************************************************************)
\* StyleParser.parse_text(text): the variables are interpolated, a text
\* that names a style of the theme is that style unless that style is
\* false, anything else is parsed.  An exception of the interpolation
\* leaves the constructor as a syntax error does.
ParseText(s) ==
    LET resolved == SubVariables(s, 1, 1)
        found == Len(resolved.out) = 1 /\ resolved.out[1] \in DOMAIN styles
    IN  IF resolved.err # "" THEN StyleSyntaxError
        ELSE IF found /\ styles[resolved.out[1]] # NULL_STYLE
        THEN Parsed(styles[resolved.out[1]])
        ELSE StyleParse(resolved.out)

\* the tables of at most n items whose keys are distinct keys of the set,
\* each with one of the values V gives for it, in every order
RECURSIVE Documents(_, _, _)
Documents(V, keyset, n) ==
    IF n = 0 THEN {<<>>}
    ELSE {<<>>} \cup UNION { { <<Entry(k, v)>> \o d : v \in V[k],
                                                   d \in Documents(V, keyset \ {k}, n - 1) } :
                             k \in keyset }

\* the names under which the generators are registered
GeneratorNames == {"environment_variables", "fzf", "ls_colors", "exa_colors", "eza", "iterm"}

\* the definitions of a scope for the generator g
Scopedefs(g) ==
    LET x == Token(FALSE, "var", <<"x">>, FALSE, <<>>)
        table(items) == [t |-> "table", v |-> items]
        list(items) == [t |-> "list", v |-> items]
        opt(key, values) == {<<>>} \cup { <<Entry(key, v)>> : v \in values }
        env == [k \in {"unset", "export"} |->
                 IF k = "unset"
                 THEN { Str(<<"NO", "LIST">>), Str(<<>>), list(<<>>), list(<< <<"A">>, x >>),
                        list(<< x, <<"A">> >>),
                        list(<< <<"A">>, Token(FALSE, "var", <<"a">>, FALSE, <<>>) >>) }
                 ELSE { table(<<>>),
                        table(<<Entry(<<"E">>, Str(<<"v">>)), Entry(<<"F">>, Str(x))>>),
                        table(<<Entry(<<"F">>, Str(x)), Entry(<<"E">>, Str(<<"v">>))>>),
                        table(<<Entry(x, Str(Token(FALSE, "style", <<"s">>, FALSE, <<>>)))>>) }]
        fzftexts == { Str(<<>>), Str(<<"#1">>), Str(<<"red", " ", "on", " ", "default">>),
                      Str(<<"bold">>), Str(<<"on", " ", "#2">>),
                      Str(<<"strike", " ", "dim", " ", "bold", " ", "#1">>),
                      Str(<<"italic", " ", "reverse", " ", "underline", " ", "#2">>) }
        fzfnames == {"text", "current-line", "selected-line", "preview", "border"}
        lstexts == { Str(<<>>), Str(<<"red">>), Str(<<"default">>), Str(<<"bold">>),
                     Str(<<"underline", " ", "bold", " ", "#1">>),
                     Str(<<"#2", " ", "on", " ", "red">>) }
        lsnames == {"directory", "di", "file", "nosuch"}
        itermstyles == [k \in {"tab", "foreground", "background", "cursor"} |->
                          CASE k = "tab" -> { Str(<<"#1">>), Str(<<"default">>) }
                            [] k = "foreground" -> { Str(<<"red">>), Str(<<"bold">>),
                                                     Str(<<"s">>), Str(<<"e">>) }
                            [] k = "background" -> { Str(<<"#2">>) }
                            [] k = "cursor" -> { Str(<<"#A">>) }]
        iterm == [k \in {"profile", "cursor", "style"} |->
                    CASE k = "profile" -> { Str(<<"dark">>) }
                      [] k = "cursor" -> { Str(<<"box">>), Str(<<"profile">>), Str(<<>>),
                                           Str(<<"nosuch">>) }
                      [] k = "style" -> { table(d) : d \in Documents(itermstyles,
                                                                     DOMAIN itermstyles, 4) }]
    IN  CASE g = "environment_variables" -> Documents(env, DOMAIN env, 2)
          [] g = "fzf" ->
               { o \o c \o e \o st :
                   o \in opt("opt", { table(<<Entry(<<"--border">>, BoolTrue),
                                              Entry(<<"--prompt">>, Str(x)),
                                              Entry(<<"--ansi">>, BoolFalse)>>) }),
                   c \in opt("colorbase", { Str(<<"dark">>) }),
                   e \in opt("environment_variable", { Str(<<"MY_", "OPTS">>) }),
                   st \in opt("style", { table(d) :
                                           d \in Documents([n \in fzfnames |-> fzftexts],
                                                           fzfnames, 2) }) }
          [] g = "iterm" -> Documents(iterm, DOMAIN iterm, 3)
          [] OTHER ->
               { c \o e \o st :
                   c \in opt("clear_builtin", { BoolTrue, BoolFalse, Str(<<"yes">>) }),
                   e \in opt("environment_variable", { Str(x) }),
                   st \in opt("style", { table(d) :
                                           d \in Documents([n \in lsnames |-> lstexts],
                                                           lsnames, 2) }) }

\* GeneratorBase.__init__: the scope's own styles are parsed; the exception
\* of a style text that does not parse leaves the constructor, and no
\* generate() is called
GenInit ==
    /\ ThemeIdle
    /\ ScopeIdle
    /\ LoadIdle
    /\ \E i \in {1, 2} : styles = (CHOOSE f \in [{1, 2} -> StyleTables] :
                                       f[1] = [k \in {} |-> NULL_STYLE] /\ f[2] # f[1])[i]
                         /\ variables = (CHOOSE f \in [{1, 2} -> VarTables] :
                                           f[1] = EmptyTable /\ f[2] # f[1])[i]
    /\ text = <<>>
    /\ op = ""
    /\ result = Returned(<<>>)
    /\ generator \in GeneratorNames
    /\ scopedef \in Scopedefs(generator)
    /\ LET raw == IF HasKey(scopedef, "style") THEN Item(scopedef, "style").v ELSE <<>>
       IN  \E parsed \in { [i \in DOMAIN raw |-> ParseText(raw[i].value.v)] } :
              IF \E i \in DOMAIN raw : parsed[i].raised
              THEN /\ scope_styles = <<>>
                   /\ generated = [NotGenerated EXCEPT !.err = "StyleSyntaxError"]
              ELSE /\ scope_styles = [i \in DOMAIN raw |-> Entry(raw[i].key, parsed[i].style)]
                   /\ generated = NotGenerated

GenNext ==
    \/ EnvironmentVariablesGenerate
    \/ FzfGenerate
    \/ LsColorsGenerate
    \/ ExaColorsGenerate
    \/ EzaGenerate
    \/ ItermGenerate

SpecGen == GenInit /\ [][GenNext]_vars

(***************************************************************************)
(* Properties of the generators.                                           *)
(***************************************************************************)
\* s.split(sep) for a text that is not empty, no part for the empty text
RECURSIVE SplitOn(_, _, _)
SplitOn(s, sep, part) ==
    IF s = <<>> THEN <<part>>
    ELSE IF Head(s) = sep THEN <<part>> \o SplitOn(Tail(s), sep, <<>>)
    ELSE SplitOn(Tail(s), sep, Append(part, Head(s)))

Parts(s, sep) == IF s = <<>> THEN <<>> ELSE SplitOn(s, sep, <<>>)
\* the parts of a text whose parts are single words
Words(s, sep) == [i \in DOMAIN Parts(s, sep) |-> Parts(s, sep)[i][1]]

\* the texts generate() of EnvironmentVariables hands to the interpolator
UnsetEntries ==
    IF ~HasKey(scopedef, "unset") THEN <<>>
    ELSE IF Item(scopedef, "unset").t = "str" THEN <<Item(scopedef, "unset").v>>
    ELSE Item(scopedef, "unset").v
ExportEntries == IF HasKey(scopedef, "export") THEN Item(scopedef, "export").v ELSE <<>>

\* C16: EnvironmentVariables.generate emits one line "unset NAME" for every
\* entry of unset, in order, a plain string being one entry and one line;
\* then one line export NAME="value" for every item of export in the order
\* of the table, so that every unset line precedes every export line; an
\* absent key adds no line and is no error: generate() fails only when the
\* interpolation of one of the texts fails.
C16_UnsetsThenExports ==
    (generator = "environment_variables" /\ generated.done) =>
        LET lines == Parts(generated.out, NL)
            nu == Len(UnsetEntries)
        IN  IF generated.err = ""
            THEN /\ Len(lines) = nu + Len(ExportEntries)
                 /\ HasKey(scopedef, "unset") /\ Item(scopedef, "unset").t = "str" => nu = 1
                 /\ \A i \in 1..nu :
                       lines[i] = <<"unset", " ">> \o Interpolate(UnsetEntries[i], 1).out
                 /\ \A i \in DOMAIN ExportEntries :
                       lines[nu + i] = <<"export", " ">>
                                       \o Interpolate(ExportEntries[i].key, 1).out
                                       \o <<"=", "\"">>
                                       \o Interpolate(ExportEntries[i].value.v, 1).out
                                       \o <<"\"">>
            ELSE \/ \E i \in DOMAIN UnsetEntries : Interpolate(UnsetEntries[i], 1).err # ""
                 \/ \E i \in DOMAIN ExportEntries :
                       \/ Interpolate(ExportEntries[i].key, 1).err # ""
                       \/ Interpolate(ExportEntries[i].value.v, 1).err # ""

\* C16 witness: generate() has returned for a scope whose unset is a plain
\* string of more than one character, given after an export table of two
\* items: three lines, the unset line first.
C16_Witness ==
    /\ generator = "environment_variables" /\ generated.done /\ generated.err = ""
    /\ HasKey(scopedef, "unset") /\ Item(scopedef, "unset").t = "str"
    /\ Len(Item(scopedef, "unset").v) > 1
    /\ scopedef[1].key = "export" /\ Len(ExportEntries) = 2
    /\ Len(Parts(generated.out, NL)) = 3
    /\ Head(Parts(generated.out, NL)[1]) = "unset"

\* the attribute words of fzf in the order the claim fixes
FzfAttributeOrder == <<"bold", "underline", "reverse", "dim", "italic", "strikethrough">>
\* the attribute words of a style text, as fzf spells them
FzfAttributesOf(style_text) ==
    LET words == Split(style_text, <<>>, <<>>)
    IN  { IF w = "strike" THEN "strikethrough" ELSE w :
            w \in { words[i][1] : i \in DOMAIN words } \cap
                  {"bold", "underline", "reverse", "dim", "italic", "strike"} }
\* parts is "regular" and then exactly the attributes, in the fixed order
FzfAttributesInOrder(parts, attributes) ==
    /\ parts # <<>> /\ parts[1] = "regular"
    /\ { parts[i] : i \in 2..Len(parts) } = attributes
    /\ \A i \in 2..Len(parts), j \in 2..Len(parts) :
          i < j => \E a \in DOMAIN FzfAttributeOrder, b \in DOMAIN FzfAttributeOrder :
                      a < b /\ FzfAttributeOrder[a] = parts[i] /\ FzfAttributeOrder[b] = parts[j]
\* the pair of fzf names of the four style names that have one
FzfPairs ==
    [n \in {"text", "current-line", "selected-line", "preview"} |->
        CASE n = "text" -> <<"fg", "bg">>
          [] n = "current-line" -> <<"fg+", "bg+">>
          [] n = "selected-line" -> <<"selected-fg", "selected-bg">>
          [] n = "preview" -> <<"preview-fg", "preview-bg">>]

\* C17: for every style of an fzf scope, a style named text, current-line,
\* selected-line or preview gives the token FG:color:attrs when it has a
\* foreground and then the token BG:color when it has a background, under
\* the paired names; any other name gives name:color:attrs from the
\* foreground only.  attrs is "regular" followed by the attributes of the
\* style in the order bold, underline, reverse, dim, italic, strikethrough,
\* whatever the order of the words of the style text.
C17_FzfStyleTokens ==
    (generator = "fzf" /\ generated.done /\ generated.err = "") =>
        \A i \in DOMAIN scope_styles :
            LET name == scope_styles[i].key
                style == scope_styles[i].value
                tokens == Parts(generated.items[i], ",")
                fg == IF style.color # "" THEN 1 ELSE 0
                bg == IF style.bgcolor # "" /\ name \in DOMAIN FzfPairs THEN 1 ELSE 0
                attributes == FzfAttributesOf(Item(scopedef, "style").v[i].value.v)
            IN  /\ Len(tokens) = fg + bg
                /\ fg = 1 =>
                     LET parts == Words(tokens[1], ":") IN
                     /\ \A p \in DOMAIN parts : Parts(tokens[1], ":")[p] = <<parts[p]>>
                     /\ Len(parts) >= 3
                     /\ parts[1] = (IF name \in DOMAIN FzfPairs THEN FzfPairs[name][1] ELSE name)
                     /\ parts[2] = FzfColorFromRichColor(style.color)
                     /\ FzfAttributesInOrder(SubSeq(parts, 3, Len(parts)), attributes)
                /\ bg = 1 =>
                     Parts(tokens[fg + 1], ":")
                        = << <<FzfPairs[name][2]>>, <<FzfColorFromRichColor(style.bgcolor)>> >>

\* C17 witness: the statement is printed for a scope with a paired name
\* that has foreground and background and with another name whose style
\* text lists three attributes in an order that is not the order of fzf.
C17_Witness ==
    /\ generator = "fzf" /\ generated.done /\ generated.err = "" /\ stdout # <<>>
    /\ \E i \in DOMAIN scope_styles, j \in DOMAIN scope_styles :
          /\ scope_styles[i].key = "text"
          /\ scope_styles[i].value.color # "" /\ scope_styles[i].value.bgcolor # ""
          /\ scope_styles[j].key = "border"
          /\ Item(scopedef, "style").v[j].value.v
                = <<"italic", " ", "reverse", " ", "underline", " ", "#2">>

\* the entry of a style in LS_COLORS: the code, "=", and 0 for the default
\* foreground, else the ansi codes of the style
ColorsEntry(code, style) ==
    <<code, "=">> \o (IF style.color = "default" THEN <<"0">> ELSE AnsiCodes(style))

\* C18: LsColors with clear_builtin = true, for every set of declared
\* styles keyed by friendly names or native codes, any of them possibly
\* empty: generate() returns, and the value has an entry for every one of
\* the 19 builtin codes, with the codes of the declared style where a
\* style that is not empty was declared for the code, and code=0 for
\* every other code.
C18_ClearBuiltinCoversAll ==
    (/\ generator = "ls_colors" /\ generated.done
     /\ HasKey(scopedef, "clear_builtin") /\ Item(scopedef, "clear_builtin") = BoolTrue
     /\ \A i \in DOMAIN scope_styles : scope_styles[i].key \in DOMAIN LS_COLORS_MAP) =>
        /\ generated.err = ""
        /\ \A b \in DOMAIN LS_COLORS_BASE_MAP :
              LET code == LS_COLORS_BASE_MAP[b][2]
                  declared == { i \in DOMAIN scope_styles :
                                  /\ LS_COLORS_MAP[scope_styles[i].key] = code
                                  /\ scope_styles[i].value # NULL_STYLE }
                  entries == { generated.items[k] : k \in DOMAIN generated.items }
              IN  IF declared = {} THEN <<code, "=", "0">> \in entries
                  ELSE \A i \in declared : ColorsEntry(code, scope_styles[i].value) \in entries

\* the map of the tool of the generator
ToolMap ==
    CASE generator = "ls_colors" -> LS_COLORS_MAP
      [] generator = "exa_colors" -> EXA_COLORS_MAP
      [] OTHER -> EZA_COLORS_MAP
\* the style goes through ls_colors_from_style of this generator: it is
\* empty, or it has a foreground and a name the generator takes
GoesThrough(i) ==
    \/ scope_styles[i].value = NULL_STYLE
    \/ /\ scope_styles[i].value.color # ""
       /\ generator = "eza" \/ scope_styles[i].key \in DOMAIN ToolMap

\* C19: for every declared style whose name is neither a friendly name nor
\* a native code of the map of the tool, ls_colors and exa_colors fail
\* with an error that names the style and the scope, and eza accepts it
\* and emits name=codes with the name as the code.  Stated for a style
\* that is not empty, where clear_builtin is absent or a boolean and no
\* other style of the scope stops the generator first.
C19_UnknownStyleName ==
    (/\ generator \in {"ls_colors", "exa_colors", "eza"} /\ generated.done
     /\ HasKey(scopedef, "clear_builtin") => Item(scopedef, "clear_builtin").t = "bool") =>
        \A i \in DOMAIN scope_styles :
            (/\ scope_styles[i].key \notin DOMAIN ToolMap
             /\ scope_styles[i].value # NULL_STYLE
             /\ \A j \in DOMAIN scope_styles :
                   (j < i \/ (j > i /\ generator = "eza")) => GoesThrough(j)) =>
                IF generator = "eza"
                THEN /\ generated.err = ""
                     /\ \E k \in DOMAIN generated.items :
                           generated.items[k] = ColorsEntry(scope_styles[i].key,
                                                            scope_styles[i].value)
                     /\ stdout # <<>>
                ELSE /\ generated.err = "ThemeError"
                     /\ scope_styles[i].key \in Atoms(generated.msg)
                     /\ Scope \in Atoms(generated.msg)

\* which of the six a line of Iterm.generate is: 1 the profile, 2 the tab
\* color, 3 the foreground, 4 the background, 5 the shape of the cursor,
\* 6 the color of the cursor
ItermKind(line) ==
    CASE line = <<"builtin echo -en \"\\e]6;1;bg;*;default\\a\"">> -> 2
      [] line = <<"builtin echo -en \"\\e[0q\"">> -> 5
      [] line[1] = "builtin echo -en \"\\e]6;1;bg;" -> 2
      [] line[2] = "SetProfile=" -> 1
      [] line[2] = "CursorShape=" -> 5
      [] line[2] = "SetColors=" /\ line[3] = "fg" -> 3
      [] line[2] = "SetColors=" /\ line[3] = "bg" -> 4
      [] line[2] = "SetColors=" /\ line[3] = "curbg" -> 6

\* C20: Iterm.generate emits its lines in the order profile, tab color,
\* foreground, background, shape of the cursor, color of the cursor,
\* whatever the order of the keys of the scope and of its styles; the
\* profile line, when the scope has a profile, is the first line.  Each of
\* the six is there exactly when the scope asks for it.
C20_ItermFixedOrder ==
    (generator = "iterm" /\ generated.done /\ generated.err = "") =>
        LET lines == Parts(generated.out, NL)
            kinds == { ItermKind(lines[i]) : i \in DOMAIN lines }
        IN  /\ \A i \in DOMAIN lines, j \in DOMAIN lines :
                  i < j => ItermKind(lines[i]) <= ItermKind(lines[j])
            /\ HasKey(scopedef, "profile") => lines # <<>> /\ ItermKind(lines[1]) = 1
            /\ 1 \in kinds <=> HasKey(scopedef, "profile")
            /\ 2 \in kinds <=> HasKey(scope_styles, "tab")
            /\ 3 \in kinds <=> HasKey(scope_styles, "foreground")
            /\ 4 \in kinds <=> HasKey(scope_styles, "background")
            /\ 5 \in kinds <=> HasKey(scopedef, "cursor") /\ Item(scopedef, "cursor").v # <<>>
            /\ 6 \in kinds <=> HasKey(scope_styles, "cursor")

\* C20 witness: generate() has returned all six kinds of lines for a scope
\* that gives the cursor first and the profile last, and whose styles
\* start with the color of the cursor.
C20_Witness ==
    /\ generator = "iterm" /\ generated.done /\ generated.err = ""
    /\ Len(scopedef) = 3 /\ scopedef[1].key = "cursor" /\ scopedef[3].key = "profile"
    /\ Len(scope_styles) = 4 /\ scope_styles[1].key = "cursor"
    /\ { ItermKind(Parts(generated.out, NL)[i]) : i \in DOMAIN Parts(generated.out, NL) }
          = 1..6
    /\ ItermKind(Parts(generated.out, NL)[1]) = 1

\* the scope gives a cursor that is neither empty, nor "profile", nor a
\* shape of CURSOR_MAP, and every style of the scope has a foreground, so
\* that the helpers before _iterm_cursor append their lines
UnknownCursor ==
    /\ generator = "iterm"
    /\ HasKey(scopedef, "cursor")
    /\ Item(scopedef, "cursor").v \notin {<<>>, <<"profile">>}
    /\ Item(scopedef, "cursor").v[1] \notin DOMAIN CURSOR_MAP
    /\ \A i \in DOMAIN scope_styles : scope_styles[i].value.color # ""

NameOf(name) ==
    LET upper == <<"A", "B", "C", "D", "E", "F", "G", "H", "I", "J", "K", "L", "M",
                   "N", "O", "P", "Q", "R", "S", "T", "U", "V", "W", "X", "Y", "Z">>
        lower == <<"a", "b", "c", "d", "e", "f", "g", "h", "i", "j", "k", "l", "m",
                   "n", "o", "p", "q", "r", "s", "t", "u", "v", "w", "x", "y", "z">>
        digit == {"0", "1", "2", "3", "4", "5", "6", "7", "8", "9"}
        IsUpper(c) == \E k \in DOMAIN upper : upper[k] = c
        IsLower(c) == \E k \in DOMAIN lower : lower[k] = c
        \* the last position of the run of uppercase letters that starts at i
        RECURSIVE RunEnd(_, _)
        RunEnd(t, i) == IF i < Len(t) /\ IsUpper(t[i + 1]) THEN RunEnd(t, i + 1) ELSE i
        \* ([A-Z]+)([A-Z][a-z]): group 1 is greedy and gives back one letter
        RECURSIVE Sub1(_, _)
        Sub1(t, i) ==
            IF i > Len(t) THEN <<>>
            ELSE LET j == RunEnd(t, i)
                 IN  IF IsUpper(t[i]) /\ j > i /\ j < Len(t) /\ IsLower(t[j + 1])
                     THEN SubSeq(t, i, j - 1) \o <<"_">> \o SubSeq(t, j, j + 1) \o Sub1(t, j + 2)
                     ELSE <<t[i]>> \o Sub1(t, i + 1)
        \* ([a-z\d])([A-Z])
        RECURSIVE Sub2(_, _)
        Sub2(t, i) ==
            IF i > Len(t) THEN <<>>
            ELSE IF i < Len(t) /\ (IsLower(t[i]) \/ t[i] \in digit) /\ IsUpper(t[i + 1])
            THEN <<t[i], "_", t[i + 1]>> \o Sub2(t, i + 2)
            ELSE <<t[i]>> \o Sub2(t, i + 1)
        replaced == [i \in DOMAIN Sub2(Sub1(name, 1), 1) |->
                        IF Sub2(Sub1(name, 1), 1)[i] = "-" THEN "_"
                        ELSE Sub2(Sub1(name, 1), 1)[i]]
    IN  [i \in DOMAIN replaced |->
            IF IsUpper(replaced[i])
            THEN lower[CHOOSE k \in DOMAIN upper : upper[k] = replaced[i]]
            ELSE replaced[i]]

\* the class statements of generators.py in the order of the file, each
\* with whether GeneratorBase is among its bases
GeneratorClasses ==
    <<
       [name |-> <<"G", "e", "n", "e", "r", "a", "t", "o", "r", "B", "a", "s", "e">>,
        generator |-> FALSE],
       [name |-> <<"L", "s", "C", "o", "l", "o", "r", "s", "F", "r", "o", "m", "S", "t", "y", "l", "e">>,
        generator |-> FALSE],
       [name |-> <<"E", "n", "v", "i", "r", "o", "n", "m", "e", "n", "t", "V", "a", "r", "i", "a", "b", "l", "e", "s">>,
        generator |-> TRUE],
       [name |-> <<"F", "z", "f">>,
        generator |-> TRUE],
       [name |-> <<"L", "s", "C", "o", "l", "o", "r", "s">>,
        generator |-> TRUE],
       [name |-> <<"E", "x", "a", "C", "o", "l", "o", "r", "s">>,
        generator |-> TRUE],
       [name |-> <<"E", "z", "a">>,
        generator |-> TRUE],
       [name |-> <<"I", "t", "e", "r", "m">>,
        generator |-> TRUE],
       [name |-> <<"S", "h", "e", "l", "l">>,
        generator |-> TRUE] >>

\* names of classes that a module of the user may derive from GeneratorBase
\* or not
UserClassNames ==
        { <<"M", "y", "G", "e", "n">>,
          <<"H", "T", "T", "P", "S", "e", "r", "v", "e", "r">>,
          <<"T", "m", "u", "x", "2", "B", "a", "r">>,
          <<"L", "S", "C", "o", "l", "o", "r", "s">>,
          <<"m", "y", "-", "g", "e", "n">>,
          <<"E", "z", "a">> }

\* the module is loaded, then a module of the user with up to two classes
LoadInit ==
    /\ ThemeIdle
    /\ InterpIdle
    /\ ScopeIdle
    /\ GenIdle
    /\ styles = [k \in {} |-> NULL_STYLE]
    /\ classmap = <<>>
    /\ pattern = [definition |-> <<>>, variables |-> <<>>, resolved_vars |-> <<>>,
                  at |-> "", todo |-> <<>>, err |-> "", msg |-> <<>>, ran |-> <<>>]
    /\ scope = [raw |-> <<>>, data |-> <<>>, definition |-> <<>>, at |-> "", err |-> "",
                read |-> <<>>]
    /\ \E n \in 0..2 :
          \E user \in [1..n -> [name : UserClassNames, generator : BOOLEAN]] :
              classes = GeneratorClasses \o user

\* a class statement runs: __init_subclass__ of GeneratorBase is called for
\* a class that derives from it, and assigns classmap[_name_of(__name__)]
DefineClass ==
    /\ classes # <<>>
    /\ classes' = Tail(classes)
    /\ \E registered \in { NameOf(Head(classes).name) } :
          classmap' = IF ~Head(classes).generator THEN classmap
                      ELSE IF HasKey(classmap, registered)
                      THEN [i \in DOMAIN classmap |->
                               IF classmap[i].key = registered
                               THEN Entry(registered, Head(classes).name)
                               ELSE classmap[i]]
                      ELSE Append(classmap, Entry(registered, Head(classes).name))
    /\ UNCHANGED <<themeVars, interpVars, scopeVars, genVars, pattern, scope>>

LoadNext ==
    \/ DefineClass

SpecLoad == LoadInit /\ [][LoadNext]_vars

\* the names the generators are expected under
ExpectedNames ==
    { <<"e", "n", "v", "i", "r", "o", "n", "m", "e", "n", "t", "_", "v", "a", "r", "i", "a", "b", "l", "e", "s">>,
      <<"e", "x", "a", "_", "c", "o", "l", "o", "r", "s">>,
      <<"e", "z", "a", "_", "c", "o", "l", "o", "r", "s">>,
      <<"f", "z", "f">>,
      <<"i", "t", "e", "r", "m">>,
      <<"l", "s", "_", "c", "o", "l", "o", "r", "s">>,
      <<"s", "h", "e", "l", "l">> }

\* C22: once generators.py is loaded the registry maps each of the names
\* environment_variables, exa_colors, eza_colors, fzf, iterm, ls_colors and
\* shell to the class whose underscored lowercase name it is, every key is
\* the underscored lowercase name of its class, and there is no entry for
\* the base class or for the mixin LsColorsFromStyle.
C22_RegistryNames ==
    (\A i \in DOMAIN classes : classes[i] \notin
                                 { GeneratorClasses[k] : k \in DOMAIN GeneratorClasses }) =>
        /\ \A name \in ExpectedNames :
              HasKey(classmap, name) /\ NameOf(Item(classmap, name)) = name
        /\ \A i \in DOMAIN classmap :
              /\ classmap[i].key = NameOf(classmap[i].value)
              /\ classmap[i].value \notin { <<"G", "e", "n", "e", "r", "a", "t", "o", "r",
                                              "B", "a", "s", "e">>,
                                            GeneratorClasses[2].name }

(***************************************************************************)
(* Pattern._process_definition.  definition["variables"] is the table in   *)
(* document order, with the table capture among its items.  What the       *)
(* interpolator returns for a text is kept as the text together with the   *)
(* names of the table it was constructed with.                             *)
(***************************************************************************)
\* the tables [variables] of the patterns
VariableTables ==
    LET table(items) == [t |-> "table", v |-> items]
        cmds == [k \in {"a", "b"} |-> { Str(<<"cmd">>) }]
        regular == [k \in {"a", "c", "d"} |->
                      { Str(<<"x">>), Str(Token(FALSE, "var", <<"d">>, FALSE, <<>>)) }]
        captures == { <<Entry("capture", table(d))>> : d \in Documents(cmds, DOMAIN cmds, 2) }
        Insert(d, c, n) == SubSeq(d, 1, n) \o c \o SubSeq(d, n + 1, Len(d))
    IN  UNION { { d } \cup { Insert(d, c, n) : c \in captures, n \in 0..Len(d) } :
                d \in Documents(regular, DOMAIN regular, 2) }

\* the pattern is loaded and _process_definition is called: cap_vars and
\* reg_vars are read as each loop is entered
PatternInit ==
    /\ ThemeIdle
    /\ InterpIdle
    /\ ScopeIdle
    /\ GenIdle
    /\ styles = [k \in {} |-> NULL_STYLE]
    /\ classes = <<>> /\ classmap = <<>>
    /\ \E definition \in VariableTables :
          pattern = [definition |-> definition, variables |-> <<>>, resolved_vars |-> <<>>,
                     at |-> "capture",
                     todo |-> IF HasKey(definition, "capture")
                              THEN Item(definition, "capture").v ELSE <<>>,
                     err |-> "", msg |-> <<>>, ran |-> <<>>]
    /\ scope = [raw |-> <<>>, data |-> <<>>, definition |-> <<>>, at |-> "", err |-> "",
                read |-> <<>>]

\* dict(self.definition["variables"]) without the key capture
RegVars(definition) ==
    LET RECURSIVE Without(_)
        Without(d) == IF d = <<>> THEN <<>>
                      ELSE IF Head(d).key = "capture" THEN Without(Tail(d))
                      ELSE <<Head(d)>> \o Without(Tail(d))
    IN  Without(definition)

\* var in resolved_vars, as nobody asks
AlreadyDefined_Never(var, resolved_vars) == FALSE

\* var in resolved_vars
AlreadyDefined(var, resolved_vars) == HasKey(resolved_vars, var)

\* one turn of the loop over cap_vars: the command runs in a shell, which
\* returns any code and any output; the loop over reg_vars is next when
\* there is no capture variable left
CaptureVariable ==
    /\ pattern.at = "capture"
    /\ IF pattern.todo = <<>>
       THEN pattern' = [pattern EXCEPT !.at = "variables",
                                       !.todo = RegVars(pattern.definition)]
       ELSE \E returncode \in {0, 1}, out \in {<<"out">>, <<>>} :
               LET var == Head(pattern.todo).key
                   run == Append(pattern.ran, [call |-> "run", var |-> var, seen |-> <<>>])
               IN  pattern' =
                     IF returncode # 0
                     THEN [pattern EXCEPT !.at = "raised", !.err = "DyeError", !.ran = run,
                              !.msg = <<Prog, ": capture variable '", var,
                                        "' returned a non-zero exit code.">>]
                     ELSE [pattern EXCEPT !.todo = Tail(@), !.ran = run,
                              !.resolved_vars = Append(@, Entry(var, Str(out)))]
    /\ UNCHANGED <<themeVars, interpVars, scopeVars, genVars, classes, classmap, scope>>

\* one turn of the loop over reg_vars: a new interpolator is constructed
\* with resolved_vars as it is now; self.variables is set after the loop
RegularVariable ==
    /\ pattern.at = "variables"
    /\ IF pattern.todo = <<>>
       THEN pattern' = [pattern EXCEPT !.at = "done", !.variables = pattern.resolved_vars]
       ELSE LET var == Head(pattern.todo).key
                seen == [i \in DOMAIN pattern.resolved_vars |-> pattern.resolved_vars[i].key]
                interpolated == [t |-> "interpolated", v |-> Head(pattern.todo).value.v,
                                 seen |-> seen]
            IN  pattern' =
                  IF AlreadyDefined(var, pattern.resolved_vars)
                  THEN [pattern EXCEPT !.at = "raised", !.err = "DyeError",
                           !.msg = <<Prog, ": a variable named '", var,
                                     "' is already defined.">>]
                  ELSE [pattern EXCEPT !.todo = Tail(@),
                           !.ran = Append(@, [call |-> "interpolate", var |-> var,
                                              seen |-> seen]),
                           !.resolved_vars = Append(@, Entry(var, interpolated))]
    /\ UNCHANGED <<themeVars, interpVars, scopeVars, genVars, classes, classmap, scope>>

PatternNext ==
    \/ CaptureVariable
    \/ RegularVariable

SpecPattern == PatternInit /\ [][PatternNext]_vars

\* the names of the capture variables and of the ordinary variables of the
\* definition, in document order
CaptureNames ==
    IF HasKey(pattern.definition, "capture")
    THEN [i \in DOMAIN Item(pattern.definition, "capture").v |->
             Item(pattern.definition, "capture").v[i].key]
    ELSE <<>>
OrdinaryNames ==
    [i \in DOMAIN RegVars(pattern.definition) |-> RegVars(pattern.definition)[i].key]
\* the calls of the interpolator so far
Interpolations == SelectSeq(pattern.ran, LAMBDA c : c.call = "interpolate")

\* C23: the capture commands all run before the first ordinary variable is
\* interpolated; the ordinary variables are interpolated in document order,
\* each with a table that holds the captures and the ordinary variables
\* before it and nothing else; an ordinary variable named as a capture
\* variable ends the processing with an error; a capture command that
\* returns nonzero ends it with an error before any ordinary variable is
\* interpolated; after either error self.variables is as constructed.
C23_CapturesThenVariables ==
    /\ \A i \in DOMAIN pattern.ran, j \in DOMAIN pattern.ran :
          (pattern.ran[i].call = "run" /\ pattern.ran[j].call = "interpolate") => i < j
    /\ Interpolations # <<>> =>
          [i \in DOMAIN SelectSeq(pattern.ran, LAMBDA c : c.call = "run") |->
              SelectSeq(pattern.ran, LAMBDA c : c.call = "run")[i].var] = CaptureNames
    /\ \A k \in DOMAIN Interpolations :
          /\ Interpolations[k].var = OrdinaryNames[k]
          /\ Interpolations[k].seen = CaptureNames \o SubSeq(OrdinaryNames, 1, k - 1)
    /\ (pattern.at \in {"done", "raised"}
          /\ \E k \in DOMAIN OrdinaryNames : \E c \in DOMAIN CaptureNames :
                OrdinaryNames[k] = CaptureNames[c]) =>
             /\ pattern.err = "DyeError"
             /\ pattern.variables = <<>>
    /\ pattern.at = "done" =>
          /\ pattern.err = ""
          /\ Len(Interpolations) = Len(OrdinaryNames)
          /\ [i \in DOMAIN pattern.variables |-> pattern.variables[i].key]
                = CaptureNames \o OrdinaryNames
    /\ (pattern.at = "raised" /\ pattern.ran # <<>>
          /\ pattern.ran[Len(pattern.ran)].call = "run") =>
             /\ pattern.err = "DyeError"
             /\ Interpolations = <<>>
             /\ pattern.variables = <<>>

\* C23 witness: both loops have run to their end for a definition whose
\* capture table stands between two ordinary variables, the second of which
\* refers to a variable.
C23_Witness ==
    /\ pattern.at = "done"
    /\ Len(pattern.definition) = 3 /\ pattern.definition[2].key = "capture"
    /\ Len(CaptureNames) = 2
    /\ Len(Interpolations) = 2
    /\ Interpolations[2].seen = CaptureNames \o <<OrdinaryNames[1]>>
    /\ pattern.definition[3].value.v # <<"x">>

(***************************************************************************)
(* Scope._process and Scope._process_graph.  map(render_func, value) is a  *)
(* map object: render_func is called for an item when the object is        *)
(* iterated, by whoever reads the definition.                              *)
(***************************************************************************)
\* render_func(value): env.from_string compiles a str and raises TypeError
\* for anything else
RenderFunc(data, value) ==
    IF value.t # "str" THEN [err |-> "TypeError", v |-> value]
    ELSE IF Render(data, value.v).raised THEN [err |-> "UndefinedError", v |-> value]
    ELSE [err |-> "", v |-> Str(Render(data, value.v).out)]

\* _process_graph(dataset, render_func): the items in document order, the
\* first exception ends it
RECURSIVE ProcessGraph(_, _)
ProcessGraph(data, dataset) ==
    IF dataset = <<>> THEN [err |-> "", v |-> <<>>]
    ELSE LET value == Head(dataset).value
             one == IF value.t = "table"
                    THEN LET sub == ProcessGraph(data, value.v)
                         IN  [err |-> sub.err, v |-> [t |-> "table", v |-> sub.v]]
                    ELSE IF value.t = "list"
                    THEN [err |-> "", v |-> [t |-> "map", v |-> value.v]]
                    ELSE IF value.t = "str" THEN RenderFunc(data, value)
                    ELSE [err |-> "", v |-> value]
             rest == ProcessGraph(data, Tail(dataset))
         IN  IF one.err # "" THEN [err |-> one.err, v |-> <<>>]
             ELSE IF rest.err # "" THEN rest
             ELSE [err |-> "", v |-> <<Entry(Head(dataset).key, one.v)>> \o rest.v]

\* list(m) for a map object m of render_func
RECURSIVE ListOfMap(_, _)
ListOfMap(data, items) ==
    IF items = <<>> THEN [err |-> "", v |-> <<>>]
    ELSE LET one == RenderFunc(data, Head(items))
             rest == ListOfMap(data, Tail(items))
         IN  IF one.err # "" THEN [err |-> one.err, v |-> <<>>]
             ELSE IF rest.err # "" THEN rest
             ELSE [err |-> "", v |-> <<one.v>> \o rest.v]

\* the definition as a reader gets it that iterates every map object of it
RECURSIVE ReadGraph(_, _)
ReadGraph(data, definition) ==
    IF definition = <<>> THEN [err |-> "", v |-> <<>>]
    ELSE LET value == Head(definition).value
             one == IF value.t = "table"
                    THEN LET sub == ReadGraph(data, value.v)
                         IN  [err |-> sub.err, v |-> [t |-> "table", v |-> sub.v]]
                    ELSE IF value.t = "map"
                    THEN LET items == ListOfMap(data, value.v)
                         IN  [err |-> items.err, v |-> [t |-> "list", v |-> items.v]]
                    ELSE [err |-> "", v |-> value]
             rest == ReadGraph(data, Tail(definition))
         IN  IF one.err # "" THEN [err |-> one.err, v |-> <<>>]
             ELSE IF rest.err # "" THEN rest
             ELSE [err |-> "", v |-> <<Entry(Head(definition).key, one.v)>> \o rest.v]

\* the definitions of a scope: strings, booleans and numbers, in a table, in
\* a list, and in a table in a list
ScopeGraphs ==
    LET x == Raw(<<R("var", <<"x">>)>>)
        table(items) == [t |-> "table", v |-> items]
        list(items) == [t |-> "list", v |-> items]
        leaves == { Raw(<<L("a")>>), x, BoolTrue, Num5 }
        lists == { list(<<>>), list(<<x, Raw(<<L("a")>>)>>), list(<<x, Num5>>),
                   list(<<x, table(<<Entry("three", x)>>)>>) }
        inner == [k \in {"a", "l"} |-> IF k = "a" THEN leaves ELSE lists]
        values == [k \in {"k", "t", "l"} |->
                     CASE k = "k" -> leaves \cup { Raw(<<R("var", <<"q", "z">>)>>) }
                       [] k = "t" -> { table(d) : d \in Documents(inner, DOMAIN inner, 2) }
                       [] k = "l" -> lists]
    IN  Documents(values, DOMAIN values, 3)

\* Scope.extract(pattern, name) is called for a scope of the pattern
ScopeExtractInit ==
    /\ ThemeIdle
    /\ InterpIdle
    /\ ScopeIdle
    /\ GenIdle
    /\ styles = [k \in {} |-> NULL_STYLE]
    /\ classes = <<>> /\ classmap = <<>>
    /\ pattern = [definition |-> <<>>, variables |-> <<>>, resolved_vars |-> <<>>,
                  at |-> "", todo |-> <<>>, err |-> "", msg |-> <<>>, ran |-> <<>>]
    /\ \E raw \in ScopeGraphs :
          scope = [raw |-> raw,
                   data |-> [ns \in {"var", "vars", "variable", "variables"} |->
                               [k \in {"x"} |-> <<"v">>]],
                   definition |-> <<>>, at |-> "extract", err |-> "", read |-> <<>>]

\* Scope._process: self.definition = self._process_graph(scopedef, render_func)
ProcessScope ==
    /\ scope.at = "extract"
    /\ \E graph \in { ProcessGraph(scope.data, scope.raw) } :
          scope' = IF graph.err # ""
                   THEN [scope EXCEPT !.at = "raised", !.err = graph.err]
                   ELSE [scope EXCEPT !.at = "processed", !.definition = graph.v]
    /\ UNCHANGED <<themeVars, interpVars, scopeVars, genVars, classes, classmap, pattern>>

\* an agent reads the definition and iterates the lists of it
ReadDefinition ==
    /\ scope.at = "processed"
    /\ \E graph \in { ReadGraph(scope.data, scope.definition) } :
          scope' = IF graph.err # ""
                   THEN [scope EXCEPT !.at = "raised", !.err = graph.err]
                   ELSE [scope EXCEPT !.at = "read", !.read = graph.v]
    /\ UNCHANGED <<themeVars, interpVars, scopeVars, genVars, classes, classmap, pattern>>

ScopeExtractNext ==
    \/ ProcessScope
    \/ ReadDefinition

SpecExtract == ScopeExtractInit /\ [][ScopeExtractNext]_vars

\* the tree with every string leaf rendered, at any depth, in tables and in
\* lists, and every other leaf as it is
RECURSIVE DeepMap(_, _)
DeepMap(data, value) ==
    IF value.t = "str" THEN RenderFunc(data, value)
    ELSE IF value.t \notin {"table", "list"} \/ value.v = <<>> THEN [err |-> "", v |-> value]
    ELSE LET item == Head(value.v)
             one == DeepMap(data, IF value.t = "table" THEN item.value ELSE item)
             rest == DeepMap(data, [value EXCEPT !.v = Tail(@)])
         IN  IF one.err # "" THEN one
             ELSE IF rest.err # "" THEN rest
             ELSE [err |-> "",
                   v |-> [value EXCEPT !.v = <<IF value.t = "table" THEN Entry(item.key, one.v)
                                               ELSE one.v>> \o rest.v.v]]

\* C24: once the scope is processed and its definition is read, every
\* string leaf of the definition tree, in nested tables, in lists and in
\* tables inside lists, is the rendering of the leaf it was, and every
\* boolean and number is as it was; processing fails only where the
\* rendering of a string leaf fails.
C24_EveryStringLeafRendered ==
    LET expected == DeepMap(scope.data, [t |-> "table", v |-> scope.raw])
    IN  /\ scope.at = "read" => expected.err = "" /\ scope.read = expected.v.v
        /\ scope.at = "raised" => scope.err = expected.err

\* the styles of the scope as the scope gives them, before they are parsed
RawScopeStyles == IF HasKey(scopedef, "style") THEN Item(scopedef, "style").v ELSE <<>>

\* C25: a style of a scope whose text is exactly the name of a style of the
\* theme is that style as the theme has it, the empty style included; the
\* name is not parsed as style text.
C25_NamedStyleVerbatim ==
    generator # "" =>
        \A i \in DOMAIN RawScopeStyles :
            (/\ Len(RawScopeStyles[i].value.v) = 1
             /\ RawScopeStyles[i].value.v[1] \in DOMAIN styles
             /\ \A j \in DOMAIN RawScopeStyles :
                   j # i => ~ParseText(RawScopeStyles[j].value.v).raised) =>
                /\ generated.err # "StyleSyntaxError"
                /\ Len(scope_styles) = Len(RawScopeStyles)
                /\ scope_styles[i].value = styles[RawScopeStyles[i].value.v[1]]

\* the value of --color in the statement Fzf.generate printed: what stands
\* between the quotes after --color=
FzfColorValue ==
    LET line == stdout[1]
        p == CHOOSE i \in DOMAIN line : line[i] = "--color"
        q == CHOOSE j \in (p + 3)..Len(line) :
                line[j] = "'" /\ \A k \in (p + 3)..(j - 1) : line[k] # "'"
    IN  SubSeq(line, p + 3, q - 1)

\* C26: the value of --color that Fzf.generate builds is a list separated
\* by commas without an empty element: every style of the scope gives at
\* least one token name:color, a style without a foreground included, and
\* a colorbase without styles leaves no comma at the end.
C26_FzfColorNoEmptyElement ==
    (generator = "fzf" /\ generated.done /\ generated.err = "") =>
        /\ \A i \in DOMAIN generated.items : generated.items[i] # <<>>
        /\ (HasKey(scopedef, "colorbase") \/ scope_styles # <<>>) =>
              /\ "--color" \in Atoms(stdout[1])
              /\ \A i \in DOMAIN SplitOn(FzfColorValue, ",", <<>>) :
                    SplitOn(FzfColorValue, ",", <<>>)[i] # <<>>

\* C27: interpolate and interpolate_variables come to an end by themselves
\* for every text and every table of variables, a table with a variable
\* whose value refers to itself included: no call runs into the limit of
\* the interpreter on nested calls.
C27_InterpolateTerminates ==
    op \in {"interpolate", "interpolate_variables"} => result.err # "RecursionError"

\* the text is one token, without a backslash, for a variable whose value
\* is one token behind a backslash
RefersToEscapedToken ==
    /\ text \in { Token(FALSE, k, n, FALSE, <<>>) : k \in {"var", "variable"}, n \in VarNames }
    /\ text[4] \in DOMAIN variables
    /\ variables[text[4]].t = "str"
    /\ LET value == variables[text[4]].v
           m == Match(value, 1, {"var", "variable", "style"})
       IN  value # <<>> /\ m.ok /\ m.backslash /\ m.stop = Len(value)

\* C28: when the value of a variable is a token behind a backslash,
\* \{style:NAME} or \{var:NAME}, interpolate of a text that refers to the
\* variable returns the text of that token, without the backslash: neither
\* the interpolation of the value nor the later pass over the styles
\* substitutes it.
C28_EscapeSurvivesExpansion ==
    (op = "interpolate" /\ RefersToEscapedToken) =>
        result = Returned(Tail(variables[text[4]].v))

\* C29: interpolate of a line of two tokens replaces each token, or leaves
\* it, as it does when the token is the whole text, and keeps every
\* character between and behind the tokens: also when both tokens have a
\* format, and when a closing brace stands later on the line.
C29_TokensInterpolatedAlone ==
    op = "interpolate" =>
        \A l \in TokenLines :
            (/\ text = l[1] \o l[2] \o l[3]
             /\ Interpolate(l[1], 1).err = "" /\ Interpolate(l[3], 1).err = "") =>
                result = Returned(Interpolate(l[1], 1).out \o l[2] \o Interpolate(l[3], 1).out)

\* the native codes of the code=... entries of a generated list, in order
EntryCodes(items) ==
    LET entries == SelectSeq(items, LAMBDA e : Len(e) >= 2 /\ e[2] = "=")
    IN  [i \in DOMAIN entries |-> entries[i][1]]

\* C30: in the value LsColors and ExaColors emit, no native code has more
\* than one code=... entry, whatever styles are declared (a friendly name
\* together with its native code included) and whatever clear_builtin is.
C30_OneEntryPerCode ==
    (generator \in {"ls_colors", "exa_colors"} /\ generated.done /\ generated.err = "") =>
        \A i, j \in DOMAIN EntryCodes(generated.items) :
            i # j => EntryCodes(generated.items)[i] # EntryCodes(generated.items)[j]

=============================================================================
